---------------------------- MODULE Spec2Model ----------------------------
(***************************************************************************)
(* Model of the ECS holiday-restart automation:                            *)
(*   smart-handler/lambda_function.py     the Conflict Planner             *)
(*   restart-executor/lambda_function.py  the Restart Executor             *)
(*                                                                         *)
(* Python strings that the code splits, strips or hashes are sequences of  *)
(* one-character strings; datetimes are records of their civil fields, a   *)
(* tzinfo flag and a UTC offset in minutes.                                *)
(***************************************************************************)
EXTENDS Integers, Sequences, FiniteSets, TLC

VARIABLES
    clock,      \* index of the current instant in Instants (datetime.now)
    ssm,        \* parameter store: year -> stored spring-festival value
    rules,      \* EventBridge: rule name -> [schedule, state, targets]
    history,    \* Planner invocations so far: event, instant, outcome
    window,     \* overlap check: the (start, end) pair being checked
    overlap,    \* overlap check: result of check_holiday_conflict
    ePc,        \* Executor: position in lambda_handler
    eEvent,     \* Executor: the event being handled
    eResult,    \* Executor: the local variable result
    eCalls,     \* Executor: external calls made in this invocation, in order
    eNotifs,    \* Executor: calls of send_restart_notification, in order
    eResponse,  \* Executor: the returned response
    call,       \* a function called on its own: its name and arguments
    ret,        \* what that call returned
    resolving   \* resolutions of the movable holiday in progress: position, result

vars == <<clock, ssm, rules, history, window, overlap,
          ePc, eEvent, eResult, eCalls, eNotifs, eResponse, call, ret, resolving>>

---------------------------------------------------------------------------
(* Python str operations, on sequences of characters                       *)

\* str.lower()
Lower(s) ==
    LET Upper == <<"A","B","C","D","E","F","G","H","I","J","K","L","M",
                   "N","O","P","Q","R","S","T","U","V","W","X","Y","Z">>
        LowerOf == <<"a","b","c","d","e","f","g","h","i","j","k","l","m",
                     "n","o","p","q","r","s","t","u","v","w","x","y","z">>
        LowerChar(c) ==
            IF \E i \in 1..26 : Upper[i] = c
            THEN LowerOf[CHOOSE i \in 1..26 : Upper[i] = c]
            ELSE c
    IN  [i \in 1..Len(s) |-> LowerChar(s[i])]

\* str.startswith(p)
StartsWith(s, p) == Len(s) >= Len(p) /\ SubSeq(s, 1, Len(p)) = p

\* p in s
Contains(s, p) ==
    \E i \in 1..(Len(s) - Len(p) + 1) : SubSeq(s, i, i + Len(p) - 1) = p

\* str.split(c) for a one-character separator c
RECURSIVE SplitFrom(_, _, _, _)
SplitFrom(s, c, i, cur) ==
    IF i > Len(s) THEN <<cur>>
    ELSE IF s[i] = c THEN <<cur>> \o SplitFrom(s, c, i + 1, <<>>)
    ELSE SplitFrom(s, c, i + 1, Append(cur, s[i]))

Split(s, c) == SplitFrom(s, c, 1, <<>>)

\* str.strip()
RECURSIVE LStrip(_)
LStrip(s) ==
    IF s # <<>> /\ Head(s) \in {" ", "\t", "\n", "\r"} THEN LStrip(Tail(s)) ELSE s

RECURSIVE RStrip(_)
RStrip(s) ==
    IF s # <<>> /\ s[Len(s)] \in {" ", "\t", "\n", "\r"}
    THEN RStrip(SubSeq(s, 1, Len(s) - 1))
    ELSE s

Strip(s) == RStrip(LStrip(s))

Digits == <<"0","1","2","3","4","5","6","7","8","9">>

\* str(n) for n >= 0, as in an f-string
RECURSIVE IntToStr(_)
IntToStr(n) ==
    IF n < 10 THEN <<Digits[n + 1]>>
    ELSE Append(IntToStr(n \div 10), Digits[(n % 10) + 1])

---------------------------------------------------------------------------
(* datetime                                                                *)

\* days from 1970-01-01 to the civil date (proleptic Gregorian calendar)
DaysFromCivil(y, m, d) ==
    LET yy  == IF m <= 2 THEN y - 1 ELSE y
        era == yy \div 400
        yoe == yy - era * 400
        mp  == IF m > 2 THEN m - 3 ELSE m + 9
        doy == (153 * mp + 2) \div 5 + d - 1
        doe == yoe * 365 + yoe \div 4 - yoe \div 100 + doy
    IN  era * 146097 + doe - 719468

\* the civil date of a day number
CivilFromDays(z) ==
    LET zz  == z + 719468
        era == zz \div 146097
        doe == zz - era * 146097
        yoe == (doe - doe \div 1460 + doe \div 36524 - doe \div 146096) \div 365
        doy == doe - (365 * yoe + yoe \div 4 - yoe \div 100)
        mp  == (5 * doy + 2) \div 153
        d   == doy - (153 * mp + 2) \div 5 + 1
        m   == IF mp < 10 THEN mp + 3 ELSE mp - 9
        y   == yoe + era * 400 + (IF m <= 2 THEN 1 ELSE 0)
    IN  [year |-> y, month |-> m, day |-> d]

\* datetime(y, mo, d, h, mi, s, tzinfo=timezone(timedelta(minutes=off)))
DateTime(y, mo, d, h, mi, s, off) ==
    [year |-> y, month |-> mo, day |-> d, hour |-> h, minute |-> mi,
     second |-> s, microsecond |-> 0, aware |-> TRUE, off |-> off]

\* seconds from 1970-01-01T00:00:00 to the datetime's civil fields
CivilSeconds(dt) ==
    DaysFromCivil(dt.year, dt.month, dt.day) * 86400
        + dt.hour * 3600 + dt.minute * 60 + dt.second

\* the datetime of a civil date and a second of the day
AtSecondOfDay(date, sod, us, aware, off) ==
    [year |-> date.year, month |-> date.month, day |-> date.day,
     hour |-> sod \div 3600, minute |-> (sod % 3600) \div 60,
     second |-> sod % 60, microsecond |-> us, aware |-> aware, off |-> off]

FromCivilSeconds(cs, us, aware, off) ==
    AtSecondOfDay(CivilFromDays(cs \div 86400), cs % 86400, us, aware, off)

\* int(dt.timestamp()) of an aware datetime
Timestamp(dt) == CivilSeconds(dt) - dt.off * 60

\* dt.astimezone(timezone(timedelta(minutes=off))) of an aware datetime
AsTimezone(dt, off) ==
    FromCivilSeconds(Timestamp(dt) + off * 60, dt.microsecond, TRUE, off)

\* dt.replace(tzinfo=timezone(timedelta(minutes=off)))
ReplaceTzinfo(dt, off) == [dt EXCEPT !.aware = TRUE, !.off = off]

\* dt + timedelta(days=n): civil arithmetic, tzinfo kept
AddDays(dt, n) ==
    FromCivilSeconds(CivilSeconds(dt) + n * 86400, dt.microsecond, dt.aware, dt.off)

\* a <= b on aware datetimes: the instants are compared
DtLE(a, b) ==
    \/ Timestamp(a) < Timestamp(b)
    \/ Timestamp(a) = Timestamp(b) /\ a.microsecond <= b.microsecond

\* a < b on aware datetimes
DtLT(a, b) == DtLE(a, b) /\ ~DtLE(b, a)

---------------------------------------------------------------------------
(* ISO 8601 strings: datetime.isoformat() and datetime.fromisoformat()     *)

\* zero-padded decimal of width w (the {:0wd} fields of isoformat)
RECURSIVE Pad(_, _)
Pad(n, w) == IF w = 0 THEN <<>> ELSE Append(Pad(n \div 10, w - 1), Digits[(n % 10) + 1])

AllDigits(s) ==
    s # <<>> /\ \A i \in 1..Len(s) : \E k \in 1..10 : Digits[k] = s[i]

RECURSIVE ParseInt(_)
ParseInt(s) ==
    IF s = <<>> THEN 0
    ELSE ParseInt(SubSeq(s, 1, Len(s) - 1)) * 10
            + (CHOOSE k \in 1..10 : Digits[k] = s[Len(s)]) - 1

\* the +HH:MM / -HH:MM suffix isoformat() writes for an aware datetime
FormatOffset(off) ==
    LET Abs(n) == IF n < 0 THEN -n ELSE n
    IN  <<IF off < 0 THEN "-" ELSE "+">> \o Pad(Abs(off) \div 60, 2) \o <<":">>
            \o Pad(Abs(off) % 60, 2)

\* dt.isoformat()
IsoFormat(dt) ==
    Pad(dt.year, 4) \o <<"-">> \o Pad(dt.month, 2) \o <<"-">> \o Pad(dt.day, 2)
        \o <<"T">> \o Pad(dt.hour, 2) \o <<":">> \o Pad(dt.minute, 2)
        \o <<":">> \o Pad(dt.second, 2)
        \o (IF dt.microsecond # 0 THEN <<".">> \o Pad(dt.microsecond, 6) ELSE <<>>)
        \o (IF dt.aware THEN FormatOffset(dt.off) ELSE <<>>)

\* the UTC instant written with the Z designator, as the event source sends it
IsoZ(dt) == SubSeq(IsoFormat(dt), 1, 19) \o <<"Z">>

\* s.replace(old, new) for a one-character old
RECURSIVE ReplaceChar(_, _, _)
ReplaceChar(s, old, new) ==
    IF s = <<>> THEN <<>>
    ELSE (IF Head(s) = old THEN new ELSE <<Head(s)>>) \o ReplaceChar(Tail(s), old, new)

DaysInMonth(y, m) ==
    IF m = 2 THEN (IF (y % 4 = 0 /\ y % 100 # 0) \/ y % 400 = 0 THEN 29 ELSE 28)
    ELSE IF m \in {4, 6, 9, 11} THEN 30 ELSE 31

\* position of the first '+' or '-' of a time string, 0 when there is none
TzPos(t) ==
    IF \E i \in 1..Len(t) : t[i] \in {"+", "-"}
    THEN CHOOSE i \in 1..Len(t) :
            /\ t[i] \in {"+", "-"}
            /\ \A j \in 1..(i - 1) : t[j] \notin {"+", "-"}
    ELSE 0

NoTime == [ok |-> FALSE, hour |-> 0, minute |-> 0, second |-> 0, microsecond |-> 0]

TimeShapeOk(t) ==
    /\ Len(t) \in {5, 8, 15}
    /\ AllDigits(SubSeq(t, 1, 2)) /\ t[3] = ":" /\ AllDigits(SubSeq(t, 4, 5))
    /\ Len(t) >= 8 => (t[6] = ":" /\ AllDigits(SubSeq(t, 7, 8)))
    /\ Len(t) = 15 => (t[9] = "." /\ AllDigits(SubSeq(t, 10, 15)))

TimeOfFields(h, mi, s, us) ==
    IF h <= 23 /\ mi <= 59 /\ s <= 59
    THEN [ok |-> TRUE, hour |-> h, minute |-> mi, second |-> s, microsecond |-> us]
    ELSE NoTime

\* HH:MM, HH:MM:SS or HH:MM:SS.ffffff
ParseTime(t) ==
    IF ~TimeShapeOk(t) THEN NoTime
    ELSE TimeOfFields(ParseInt(SubSeq(t, 1, 2)), ParseInt(SubSeq(t, 4, 5)),
                      IF Len(t) >= 8 THEN ParseInt(SubSeq(t, 7, 8)) ELSE 0,
                      IF Len(t) = 15 THEN ParseInt(SubSeq(t, 10, 15)) ELSE 0)

OffsetShapeOk(z) ==
    /\ Len(z) = 6
    /\ AllDigits(SubSeq(z, 2, 3)) /\ z[4] = ":" /\ AllDigits(SubSeq(z, 5, 6))

OffsetOfMinutes(sign, m) ==
    IF m < 1440 THEN [ok |-> TRUE, off |-> IF sign = "-" THEN -m ELSE m]
    ELSE [ok |-> FALSE, off |-> 0]

\* +HH:MM or -HH:MM, in minutes
ParseOffset(z) ==
    IF ~OffsetShapeOk(z) THEN [ok |-> FALSE, off |-> 0]
    ELSE OffsetOfMinutes(z[1], ParseInt(SubSeq(z, 2, 3)) * 60 + ParseInt(SubSeq(z, 5, 6)))

NoDateTime ==
    [year |-> 1, month |-> 1, day |-> 1, hour |-> 0, minute |-> 0, second |-> 0,
     microsecond |-> 0, aware |-> FALSE, off |-> 0]

ParseFailed == [ok |-> FALSE, dt |-> NoDateTime]

DateShapeOk(s) ==
    /\ Len(s) >= 10
    /\ AllDigits(SubSeq(s, 1, 4)) /\ s[5] = "-"
    /\ AllDigits(SubSeq(s, 6, 7)) /\ s[8] = "-"
    /\ AllDigits(SubSeq(s, 9, 10))

DateRangeOk(y, mo, d) == y >= 1 /\ mo \in 1..12 /\ d >= 1 /\ d <= DaysInMonth(y, mo)

IsoOfFields(y, mo, d, time, tz, aware) ==
    IF ~time.ok \/ ~tz.ok THEN ParseFailed
    ELSE [ok |-> TRUE,
          dt |-> [year |-> y, month |-> mo, day |-> d, hour |-> time.hour,
                  minute |-> time.minute, second |-> time.second,
                  microsecond |-> time.microsecond, aware |-> aware, off |-> tz.off]]

\* the time string is cut at its first '+' or '-' (position tzp)
IsoOfTimeString(y, mo, d, tstr, tzp) ==
    IsoOfFields(y, mo, d,
                ParseTime(IF tzp > 0 THEN SubSeq(tstr, 1, tzp - 1) ELSE tstr),
                IF tzp > 0 THEN ParseOffset(SubSeq(tstr, tzp, Len(tstr)))
                ELSE [ok |-> TRUE, off |-> 0],
                tzp > 0)

IsoOfDate(s, y, mo, d) ==
    IF ~DateRangeOk(y, mo, d) THEN ParseFailed
    ELSE IF Len(s) = 10
    THEN [ok |-> TRUE,
          dt |-> [year |-> y, month |-> mo, day |-> d, hour |-> 0, minute |-> 0,
                  second |-> 0, microsecond |-> 0, aware |-> FALSE, off |-> 0]]
    ELSE IF Len(s) = 11 THEN ParseFailed
    ELSE IsoOfTimeString(y, mo, d, SubSeq(s, 12, Len(s)), TzPos(SubSeq(s, 12, Len(s))))

\* datetime.fromisoformat(s): ok is FALSE where Python raises ValueError.
\* Accepted: YYYY-MM-DD, optionally followed by a separator, a time
\* (HH:MM, HH:MM:SS, HH:MM:SS.ffffff) and a +HH:MM / -HH:MM offset.
FromIsoFormat(s) ==
    IF ~DateShapeOk(s) THEN ParseFailed
    ELSE IsoOfDate(s, ParseInt(SubSeq(s, 1, 4)), ParseInt(SubSeq(s, 6, 7)),
                   ParseInt(SubSeq(s, 9, 10)))

---------------------------------------------------------------------------
(* smart-handler: the blackout catalogue and the overlap decision          *)

\* china_tz = timezone(timedelta(hours=8)), as minutes
ChinaTz == 8 * 60

Utc == 0 * 60

\* the built-in table of get_default_spring_festival_dates, China time
SpringFestivalTable(year) ==
    CASE year = 2024 -> <<DateTime(2024, 2, 10, 0, 0, 0, ChinaTz), DateTime(2024, 2, 17, 23, 59, 59, ChinaTz)>>
      [] year = 2025 -> <<DateTime(2025, 1, 29, 0, 0, 0, ChinaTz), DateTime(2025, 2, 5, 23, 59, 59, ChinaTz)>>
      [] year = 2026 -> <<DateTime(2026, 2, 17, 0, 0, 0, ChinaTz), DateTime(2026, 2, 24, 23, 59, 59, ChinaTz)>>
      [] year = 2027 -> <<DateTime(2027, 2, 6, 0, 0, 0, ChinaTz), DateTime(2027, 2, 13, 23, 59, 59, ChinaTz)>>
      [] year = 2028 -> <<DateTime(2028, 1, 26, 0, 0, 0, ChinaTz), DateTime(2028, 2, 2, 23, 59, 59, ChinaTz)>>
      [] year = 2029 -> <<DateTime(2029, 2, 13, 0, 0, 0, ChinaTz), DateTime(2029, 2, 20, 23, 59, 59, ChinaTz)>>
      [] year = 2030 -> <<DateTime(2030, 2, 3, 0, 0, 0, ChinaTz), DateTime(2030, 2, 10, 23, 59, 59, ChinaTz)>>
      [] OTHER -> <<DateTime(year, 2, 1, 0, 0, 0, ChinaTz), DateTime(year, 2, 8, 23, 59, 59, ChinaTz)>>

ToUtc(interval) == <<AsTimezone(interval[1], Utc), AsTimezone(interval[2], Utc)>>

GetDefaultSpringFestivalDates(year) == ToUtc(SpringFestivalTable(year))

\* the parameter store holds, per year, nothing or a JSON value with the
\* strings 'start' and 'end'
Absent == [kind |-> "absent"]

Stored(store, year) == IF year \in DOMAIN store THEN store[year] ELSE Absent

\* the value put_parameter writes at lines 214-232
SeedValue(default) ==
    [kind  |-> "json",
     start |-> IsoFormat(AsTimezone(default[1], ChinaTz)),
     end   |-> IsoFormat(AsTimezone(default[2], ChinaTz))]

\* lines 186-200: a naive stored bound is China time; the result is in UTC
NormalizeStored(dt) ==
    AsTimezone(IF ~dt.aware THEN ReplaceTzinfo(dt, ChinaTz) ELSE dt, Utc)

\* lines 180-205 with the stored strings parsed as ps and pe; a string that
\* does not parse raises into the handler of line 240
OverrideDates(store, default, ps, pe) ==
    IF ps.ok /\ pe.ok
    THEN [dates |-> <<NormalizeStored(ps.dt), NormalizeStored(pe.dt)>>,
          store |-> store, calls |-> <<<<"get_parameter", <<>>>>>>]
    ELSE [dates |-> default, store |-> store, calls |-> <<<<"get_parameter", <<>>>>>>]

\* lines 172-242 with the write-back made after every failed lookup
ResolveSpringFestivalSeedingOnError(year, store, env, v, default) ==
    IF ~env.ssmUp \/ v.kind = "absent"
    THEN [dates |-> default,
          store |-> IF env.ssmUp /\ env.putOk THEN (year :> SeedValue(default)) @@ store
                    ELSE store,
          calls |-> <<<<"get_parameter", <<>>>>, <<"put_parameter", <<>>>>>>]
    ELSE OverrideDates(store, default, FromIsoFormat(v.start), FromIsoFormat(v.end))

\* lines 172-242 with the stored value v and the built-in interval default
ResolveSpringFestival(year, store, env, v, default) ==
    IF ~env.ssmUp
    THEN [dates |-> default, store |-> store, calls |-> <<<<"get_parameter", <<>>>>>>]
    ELSE IF v.kind = "absent"
    THEN [dates |-> default,
          store |-> IF env.putOk THEN (year :> SeedValue(default)) @@ store
                    ELSE store,
          calls |-> <<<<"get_parameter", <<>>>>, <<"put_parameter", <<>>>>>>]
    ELSE OverrideDates(store, default, FromIsoFormat(v.start), FromIsoFormat(v.end))

\* get_spring_festival_dates(year) against the store; env.ssmUp is whether
\* get_parameter answers at all, env.putOk whether put_parameter succeeds.
\* Returns the interval, the store afterwards and the store calls made.
GetSpringFestivalDates(year, store, env) ==
    ResolveSpringFestival(year, store, env, Stored(store, year),
                          GetDefaultSpringFestivalDates(year))

\* lines 140-143 and 160-163: a datetime without tzinfo is given UTC
EnsureAware(dt) == IF ~dt.aware THEN ReplaceTzinfo(dt, Utc) ELSE dt

\* the test of line 165, with < in place of <=
IntervalsOverlapStrict(ms, me, hs, he) == DtLT(ms, he) /\ DtLT(hs, me)

\* the test of line 165
IntervalsOverlap(ms, me, hs, he) == DtLE(ms, he) /\ DtLE(hs, me)

\* the loop of lines 158-168
RECURSIVE AnyHolidayOverlaps(_, _, _, _)
AnyHolidayOverlaps(holidays, i, ms, me) ==
    IF i > Len(holidays) THEN FALSE
    ELSE IF IntervalsOverlap(ms, me, EnsureAware(holidays[i][1]),
                             EnsureAware(holidays[i][2]))
    THEN TRUE
    ELSE AnyHolidayOverlaps(holidays, i + 1, ms, me)

\* lines 147-148: the national holiday of the year, China time, in UTC
NationalDay(year) ==
    ToUtc(<<DateTime(year, 10, 1, 0, 0, 0, ChinaTz),
            DateTime(year, 10, 8, 23, 59, 59, ChinaTz)>>)

\* lines 150-168 with the resolved spring festival sf
ConflictWith(ms, me, national, sf) ==
    [conflict |-> AnyHolidayOverlaps(<<national, sf.dates>>, 1, ms, me),
     holidays |-> <<national, sf.dates>>,
     store    |-> sf.store,
     calls    |-> sf.calls]

\* check_holiday_conflict(...) with the year of maintenance_end at line 137
CheckHolidayConflictByEndYear(maintenance_start, maintenance_end, store, env) ==
    ConflictWith(EnsureAware(maintenance_start), EnsureAware(maintenance_end),
                 NationalDay(maintenance_end.year),
                 GetSpringFestivalDates(maintenance_end.year, store, env))

\* check_holiday_conflict(maintenance_start, maintenance_end)
CheckHolidayConflict(maintenance_start, maintenance_end, store, env) ==
    ConflictWith(EnsureAware(maintenance_start), EnsureAware(maintenance_end),
                 NationalDay(maintenance_start.year),
                 GetSpringFestivalDates(maintenance_start.year, store, env))

\* lines 28-29: fromisoformat(s.replace('Z', '+00:00'))
ParseEventTime(s) == FromIsoFormat(ReplaceChar(s, "Z", <<"+", "0", "0", ":", "0", "0">>))

---------------------------------------------------------------------------
(* smart-handler: restart time, identity resolution, schedule creation     *)

TargetHour == 4

GuardMinute == 50

\* calculate_next_4am() without the ten-minute test of line 273
CalculateNext4amNoGuard(now) ==
    IF now.hour >= TargetHour
    THEN AddDays([now EXCEPT !.hour = TargetHour, !.minute = 0,
                             !.second = 0, !.microsecond = 0], 1)
    ELSE [now EXCEPT !.hour = TargetHour, !.minute = 0, !.second = 0,
                     !.microsecond = 0]

\* calculate_next_4am() with > in place of >= in the test of line 273
CalculateNext4amLateGuard(now) ==
    IF now.hour >= TargetHour \/ (now.hour = 3 /\ now.minute > GuardMinute)
    THEN AddDays([now EXCEPT !.hour = TargetHour, !.minute = 0,
                             !.second = 0, !.microsecond = 0], 1)
    ELSE [now EXCEPT !.hour = TargetHour, !.minute = 0, !.second = 0,
                     !.microsecond = 0]

\* calculate_next_4am(), with now = datetime.now(timezone.utc)
CalculateNext4am(now) ==
    IF now.hour >= TargetHour \/ (now.hour = 3 /\ now.minute >= GuardMinute)
    THEN AddDays([now EXCEPT !.hour = TargetHour, !.minute = 0,
                             !.second = 0, !.microsecond = 0], 1)
    ELSE [now EXCEPT !.hour = TargetHour, !.minute = 0, !.second = 0,
                     !.microsecond = 0]

\* the raw identifiers of the model
SvcArn ==
    <<"a","r","n",":","a","w","s",":","e","c","s",":","u","s","-","e","a","s","t","-","1",":",
      "1","1","1",":","s","e","r","v","i","c","e","/","p","r","o","d","-","c","l","u","s","t",
      "e","r","/","c","h","e","c","k","o","u","t","-","s","v","c">>
SvcPair ==
    <<"p","r","o","d","-","c","l","u","s","t","e","r","|","c","h","e","c","k","o","u","t","-",
      "s","v","c">>
TaskArn ==
    <<"a","r","n",":","a","w","s",":","e","c","s",":","u","s","-","e","a","s","t","-","1",":",
      "1","1","1",":","t","a","s","k","/","p","r","o","d","-","c","l","u","s","t","e","r","/",
      "a","b","c","1","2","3">>
OtherPair == <<"c","2","|","s","2">>
BadEcs == <<"e","c","s","-","f","o","o">>
ThreePair == <<"a","|","b","|","c">>
NoEcs == <<"i","-","0","a","b","c">>
\* two pairs whose md5 digests begin with the same eight hex digits
PairSvc38607 ==
    <<"p","r","o","d","-","c","l","u","s","t","e","r","|","s","v","c","-",
      "3","8","6","0","7">>
PairSvc48158 ==
    <<"p","r","o","d","-","c","l","u","s","t","e","r","|","s","v","c","-",
      "4","8","1","5","8">>
\* a pair whose service field is empty
EmptyServicePair == <<"p","r","o","d","-","c","l","u","s","t","e","r","|">>

UnknownCluster == <<"u","n","k","n","o","w","n","-","c","l","u","s","t","e","r">>
UnknownService == <<"u","n","k","n","o","w","n","-","s","e","r","v","i","c","e">>
GroupPrefix == <<"s","e","r","v","i","c","e",":">>
CheckoutSvc == <<"c","h","e","c","k","o","u","t","-","s","v","c">>

\* hashlib.md5(resource_arn.encode()).hexdigest()[:8], tabulated for the
\* identifiers of the model
Md5Hex8(resource_arn) ==
    CASE resource_arn = SvcArn    -> <<"0","7","6","b","6","8","4","2">>
      [] resource_arn = SvcPair   -> <<"5","0","5","4","e","b","f","7">>
      [] resource_arn = TaskArn   -> <<"d","3","f","9","d","6","5","a">>
      [] resource_arn = OtherPair -> <<"f","b","2","c","8","d","d","f">>
      [] resource_arn = BadEcs    -> <<"8","a","0","7","1","0","0","8">>
      [] resource_arn = ThreePair -> <<"2","e","0","7","7","b","3","e">>
      [] resource_arn = NoEcs     -> <<"a","4","9","f","d","5","0","6">>
      [] resource_arn = PairSvc38607 -> <<"4","4","a","7","e","7","f","0">>
      [] resource_arn = PairSvc48158 -> <<"4","4","a","7","e","7","f","0">>
      [] resource_arn = EmptyServicePair -> <<"3","4","8","f","1","7","9","e">>

\* parts[-1]
Last(parts) == parts[Len(parts)]

\* s.replace(p, '')
RECURSIVE RemoveAll(_, _)
RemoveAll(s, p) ==
    IF s = <<>> THEN <<>>
    ELSE IF StartsWith(s, p) THEN RemoveAll(SubSeq(s, Len(p) + 1, Len(s)), p)
    ELSE <<Head(s)>> \o RemoveAll(Tail(s), p)

\* get_service_from_task_arn(task_arn, cluster_name): ecs is what the ECS
\* API answers. describe |-> "error" and list |-> "error" are calls that
\* raise; task is the first described task or none; arns the listed services.
GetServiceFromTaskArn(task_arn, cluster_name, ecs) ==
    IF ecs.describe = "error" THEN UnknownService
    ELSE IF ecs.describe = "task" /\ ecs.hasGroup /\ StartsWith(ecs.group, GroupPrefix)
    THEN RemoveAll(ecs.group, GroupPrefix)
    ELSE IF ecs.describe = "task" /\ ecs.hasServiceName THEN ecs.serviceName
    ELSE IF ecs.list = "error" THEN UnknownService
    ELSE IF ecs.arns # <<>> THEN Last(Split(ecs.arns[1], "/"))
    ELSE UnknownService

Sentinel == <<UnknownCluster, UnknownService>>

\* lines 358-370 with the cluster taken from parts[0]
ParseArnFirstPart(entity_value, parts, colons, ecs) ==
    IF Len(parts) < 3 THEN Sentinel
    ELSE IF Len(colons) < 6 THEN Sentinel
    ELSE <<parts[1], parts[Len(parts)]>>

\* lines 358-370 with entity_value split on '/' (parts) and ':' (colons)
ParseArn(entity_value, parts, colons, ecs) ==
    IF Len(parts) < 3 THEN Sentinel
    ELSE IF Len(colons) < 6 THEN Sentinel     \* IndexError, caught at line 385
    ELSE <<parts[Len(parts) - 1],
           IF Split(colons[6], "/")[1] = <<"s","e","r","v","i","c","e">> THEN parts[Len(parts)]
           ELSE IF Split(colons[6], "/")[1] = <<"t","a","s","k">>
           THEN GetServiceFromTaskArn(entity_value, parts[Len(parts) - 1], ecs)
           ELSE UnknownService>>

\* lines 374-379 without the test of the field count
ParsePairLoose(parts) == <<Strip(parts[1]), Strip(parts[2])>>

\* lines 374-379 with entity_value split on '|'
ParsePair(parts) ==
    IF Len(parts) = 2 THEN <<Strip(parts[1]), Strip(parts[2])>> ELSE Sentinel

\* parse_ecs_resource_info(entity_value) of smart-handler
ParseEcsResourceInfo(entity_value, ecs) ==
    IF StartsWith(entity_value, <<"a","r","n",":","a","w","s">>)
    THEN ParseArn(entity_value, Split(entity_value, "/"), Split(entity_value, ":"), ecs)
    ELSE IF Contains(entity_value, <<"|">>)
    THEN ParsePair(Split(entity_value, "|"))
    ELSE Sentinel

\* lines 285-287 with the raw identifier in place of its hash
RuleNameOfRawIdentifier(resource_arn, restart_time) ==
    <<"e","c","s","-","r","e","s","t","a","r","t","-">> \o resource_arn
        \o <<"-">> \o IntToStr(Timestamp(restart_time))

\* lines 285-287: the rule name
RuleName(resource_arn, restart_time) ==
    <<"e","c","s","-","r","e","s","t","a","r","t","-">> \o Md5Hex8(resource_arn)
        \o <<"-">> \o IntToStr(Timestamp(restart_time))

\* line 301: the fields of the cron expression
CronExpression(restart_time) ==
    [minute |-> restart_time.minute, hour |-> restart_time.hour,
     day |-> restart_time.day, month |-> restart_time.month,
     year |-> restart_time.year]

HolidayReason ==
    <<"h","o","l","i","d","a","y","_","c","o","n","f","l","i","c","t","_",
      "e","a","r","l","y","_","r","e","s","t","a","r","t">>

\* lines 318-325: the payload forwarded to the Executor
TargetInput(resource_id, cluster_name, service_name, resource_arn, rule_name) ==
    [resource_id |-> resource_id, cluster_name |-> cluster_name,
     service_name |-> service_name, resource_arn |-> resource_arn,
     rule_name |-> rule_name, restart_reason |-> HolidayReason]

\* events.put_rule: creates the rule or updates it, keeping its targets
PutRule(store, rule_name, schedule) ==
    (rule_name :> [schedule |-> schedule, state |-> "ENABLED",
                   targets |-> IF rule_name \in DOMAIN store
                               THEN store[rule_name].targets ELSE {}])
        @@ store

\* events.put_targets with the one target of Id '1'
PutTargets(store, rule_name, input) ==
    [store EXCEPT ![rule_name].targets =
        {t \in @ : t.Id # "1"} \cup {[Id |-> "1", Input |-> input]}]

\* lines 296-343 without the return of lines 291-294
CreateNamedInTestMode(rule_name, schedule, input, test_mode, store, fault) ==
    [rule_name |-> rule_name,
     store |-> PutTargets(PutRule(store, rule_name, schedule), rule_name, input),
     calls |-> <<<<"put_rule", rule_name>>, <<"put_targets", rule_name>>>>,
     raised |-> FALSE]

\* lines 296-343 for the rule name computed at lines 285-287
CreateNamed(rule_name, schedule, input, test_mode, store, fault) ==
    IF test_mode
    THEN [rule_name |-> rule_name, store |-> store, calls |-> <<>>, raised |-> FALSE]
    ELSE IF fault = "put_rule"
    THEN [rule_name |-> rule_name, store |-> store,
          calls |-> <<<<"put_rule", rule_name>>>>, raised |-> TRUE]
    ELSE IF fault = "no_executor_arn"
    THEN [rule_name |-> rule_name, store |-> PutRule(store, rule_name, schedule),
          calls |-> <<<<"put_rule", rule_name>>>>, raised |-> TRUE]
    ELSE IF fault = "put_targets"
    THEN [rule_name |-> rule_name, store |-> PutRule(store, rule_name, schedule),
          calls |-> <<<<"put_rule", rule_name>>, <<"put_targets", rule_name>>>>,
          raised |-> TRUE]
    ELSE [rule_name |-> rule_name,
          store |-> PutTargets(PutRule(store, rule_name, schedule), rule_name, input),
          calls |-> <<<<"put_rule", rule_name>>, <<"put_targets", rule_name>>>>,
          raised |-> FALSE]

\* the payload is built around the rule name it carries
CreateWithName(resource_id, cluster_name, service_name, restart_time, resource_arn, test_mode, store, fault, rule_name) ==
    CreateNamed(rule_name, CronExpression(restart_time),
                TargetInput(resource_id, cluster_name, service_name, resource_arn,
                            rule_name),
                test_mode, store, fault)

\* create_restart_schedule(...) with the rule name marked in test mode
CreateRestartScheduleTestTagged(resource_id, cluster_name, service_name, restart_time, resource_arn, test_mode, store, fault) ==
    CreateWithName(resource_id, cluster_name, service_name, restart_time,
                   resource_arn, test_mode, store, fault,
                   IF test_mode
                   THEN <<"t","e","s","t","-">> \o RuleName(resource_arn, restart_time)
                   ELSE RuleName(resource_arn, restart_time))

\* create_restart_schedule(...): fault is the step that fails in this call
\* ("put_rule", "no_executor_arn", "put_targets") or "none". Returns the
\* rule name, the rule store afterwards, the calls made and whether the
\* function raised.
CreateRestartSchedule(resource_id, cluster_name, service_name, restart_time, resource_arn, test_mode, store, fault) ==
    CreateWithName(resource_id, cluster_name, service_name, restart_time,
                   resource_arn, test_mode, store, fault,
                   RuleName(resource_arn, restart_time))

---------------------------------------------------------------------------
(* smart-handler: lambda_handler                                           *)

None == [some |-> FALSE]

Some(v) == [some |-> TRUE, val |-> v]

\* Python truth of an optional string: neither None nor ''
Truthy(o) == o.some /\ o.val # <<>>

\* the filter of line 70
LooksLikeEcs(entity_value) ==
    Contains(Lower(entity_value), <<"e", "c", "s">>) \/ Contains(entity_value, <<"|">>)

\* the fault injected into the k-th call of create_restart_schedule
FaultOfCall(env, k) ==
    IF env.fault = "no_executor_arn" THEN env.fault
    ELSE IF k = env.faultAt THEN env.fault
    ELSE "none"

\* acc after one call of create_restart_schedule that returned r
Accumulate(acc, entity_value, ident, r) ==
    [store   |-> r.store,
     calls   |-> acc.calls \o r.calls,
     created |-> IF r.raised THEN acc.created
                 ELSE Append(acc.created,
                          [entity |-> entity_value, cluster_name |-> ident[1],
                           service_name |-> ident[2], rule_name |-> r.rule_name]),
     nCalls  |-> acc.nCalls + 1,
     raised  |-> r.raised]

\* lines 71-85 without the test of line 72
ProcessEntityNoSkip(entity_value, ident, restart_time, test_mode, env, acc) ==
    Accumulate(acc, entity_value, ident,
        CreateRestartSchedule(ident[2], ident[1], ident[2], restart_time,
            entity_value, test_mode, acc.store, FaultOfCall(env, acc.nCalls + 1)))

\* lines 71-85 for one entity resolved to ident
ProcessEntity(entity_value, ident, restart_time, test_mode, env, acc) ==
    IF ident[1] # UnknownCluster /\ ident[2] # UnknownService
    THEN Accumulate(acc, entity_value, ident,
             CreateRestartSchedule(ident[2], ident[1], ident[2], restart_time,
                 entity_value, test_mode, acc.store, FaultOfCall(env, acc.nCalls + 1)))
    ELSE acc

\* the loop of lines 65-85 from entity i on; acc carries the rule store,
\* the calls, the schedules created and whether a call raised
RECURSIVE ProcessEntities(_, _, _, _, _, _)
ProcessEntities(entities, i, restart_time, test_mode, env, acc) ==
    IF i > Len(entities) \/ acc.raised THEN acc
    ELSE ProcessEntities(entities, i + 1, restart_time, test_mode, env,
             IF LooksLikeEcs(entities[i])
             THEN ProcessEntity(entities[i],
                      ParseEcsResourceInfo(entities[i], env.ecs),
                      restart_time, test_mode, env, acc)
             ELSE acc)

\* one call of send_notification: what is sent and whether the webhook took it
Notification(event_type, action, severity, test_mode, env) ==
    [event_type |-> event_type, action |-> action, severity |-> severity,
     test_mode |-> test_mode, delivered |-> env.webhook = "ok"]

NoOutcome(store, ruleStore) ==
    [stage |-> "", status |-> 200, conflict |-> FALSE, restart_time |-> NoDateTime,
     holidays |-> <<>>, created |-> <<>>, notifs |-> <<>>, calls |-> <<>>,
     store |-> store, rules |-> ruleStore]

\* lines 118-133: the error notification and the 500 response
Failed(stage, event, env, out) ==
    [out EXCEPT !.stage = stage, !.status = 500,
                !.notifs = <<Notification("ECS_PHD_PROCESSING_ERROR", "", "",
                                             event.test_mode, env)>>]

\* lines 87-116 with a webhook failure raised out of send_notification
AfterLoopRaisingOnWebhook(event, env, start, out, loop) ==
    IF loop.raised THEN Failed("schedule_error", event, env, out)
    ELSE IF ~start.aware \/ env.webhook = "fails"
    THEN Failed("notify_error", event, env, out)
    ELSE [out EXCEPT !.stage = "scheduled",
                     !.notifs = <<Notification("ECS_PHD_MAINTENANCE_NOTIFICATION",
                                     "EARLY_RESTART", "HIGH", event.test_mode, env)>>]

\* lines 87-116, after the loop; (maintenance_start - now).days raises
\* TypeError when maintenance_start has no tzinfo
AfterLoop(event, env, start, out, loop) ==
    IF loop.raised THEN Failed("schedule_error", event, env, out)
    ELSE IF ~start.aware THEN Failed("notify_error", event, env, out)
    ELSE [out EXCEPT !.stage = "scheduled",
                     !.notifs = <<Notification("ECS_PHD_MAINTENANCE_NOTIFICATION",
                                     "EARLY_RESTART", "HIGH", event.test_mode, env)>>]

WithLoop(out, restart_time, loop) ==
    [out EXCEPT !.restart_time = restart_time, !.rules = loop.store,
                !.calls = @ \o loop.calls, !.created = loop.created]

Scheduled(event, env, start, out, restart_time, loop) ==
    AfterLoop(event, env, start, WithLoop(out, restart_time, loop), loop)

\* lines 56-85: the restart time and the loop over the affected entities
ScheduleRestarts(event, env, start, out, restart_time) ==
    Scheduled(event, env, start, out, restart_time,
              ProcessEntities(event.entities, 1, restart_time, event.test_mode, env,
                  [store |-> out.rules, calls |-> <<>>, created |-> <<>>,
                   nCalls |-> 0, raised |-> FALSE]))

\* lines 36-54: no conflict; (maintenance_start - now).days raises TypeError
\* when maintenance_start has no tzinfo
NoConflict(event, env, start, out) ==
    IF ~start.aware THEN Failed("notify_error", event, env, out)
    ELSE [out EXCEPT !.stage = "no_conflict",
                     !.notifs = <<Notification("ECS_PHD_MAINTENANCE_NOTIFICATION",
                                     "NO_ACTION_NEEDED", "INFO", event.test_mode, env)>>]

WithCheck(out, chk) ==
    [out EXCEPT !.conflict = chk.conflict, !.holidays = chk.holidays,
                !.store = chk.store, !.calls = chk.calls]

Decide(event, now, env, start, out) ==
    IF ~out.conflict THEN NoConflict(event, env, start, out)
    ELSE ScheduleRestarts(event, env, start, out, CalculateNext4am(now))

\* lines 27-34 with both times parsed
AfterParse(event, now, store, ruleStore, env, ps, pe) ==
    IF ~ps.ok \/ ~pe.ok
    THEN Failed("parse_error", event, env, NoOutcome(store, ruleStore))
    ELSE Decide(event, now, env, ps.dt,
                WithCheck(NoOutcome(store, ruleStore),
                          CheckHolidayConflict(ps.dt, pe.dt, store, env)))

\* lambda_handler(event, context) of smart-handler, run at the instant now
\* against the parameter store and the rule store. stage names the path
\* taken; status is the statusCode returned.
PlannerHandler(event, now, store, ruleStore, env) ==
    IF ~Truthy(event.startTime) \/ ~Truthy(event.endTime)
    THEN [NoOutcome(store, ruleStore) EXCEPT !.stage = "no_window"]
    ELSE AfterParse(event, now, store, ruleStore, env,
                    ParseEventTime(event.startTime.val),
                    ParseEventTime(event.endTime.val))

---------------------------------------------------------------------------
(* The inputs of the model                                                 *)

MaxClock == 4

MaxPlannerRuns == 2

NumWindowTimes == 12

\* the instants datetime.now(timezone.utc) takes, in order
Instants ==
    <<DateTime(2025, 9, 29, 3, 0, 0, Utc),
      DateTime(2025, 9, 29, 3, 55, 0, Utc),
      [DateTime(2025, 9, 30, 12, 0, 0, Utc) EXCEPT !.microsecond = 250000],
      DateTime(2025, 10, 2, 5, 0, 0, Utc),
      DateTime(2025, 10, 9, 3, 49, 59, Utc),
      DateTime(2025, 10, 9, 3, 50, 0, Utc)>>

Now(c) == Instants[c]

Naive(dt) == [dt EXCEPT !.aware = FALSE]

\* startTime / endTime strings of maintenance events
WindowTimes ==
    <<IsoZ(DateTime(2025, 6, 1, 0, 0, 0, Utc)),
      IsoZ(DateTime(2025, 6, 2, 0, 0, 0, Utc)),
      IsoZ(DateTime(2025, 9, 30, 15, 59, 59, Utc)),
      IsoZ(DateTime(2025, 9, 30, 16, 0, 0, Utc)),
      IsoZ(DateTime(2025, 10, 2, 0, 0, 0, Utc)),
      IsoZ(DateTime(2025, 10, 3, 0, 0, 0, Utc)),
      IsoZ(DateTime(2025, 10, 8, 15, 59, 59, Utc)),
      IsoZ(DateTime(2025, 10, 8, 16, 0, 0, Utc)),
      IsoFormat(Naive(DateTime(2025, 10, 8, 20, 0, 0, Utc))),
      IsoFormat(DateTime(2025, 2, 5, 23, 59, 59, ChinaTz)),
      IsoZ(DateTime(2026, 2, 20, 0, 0, 0, Utc)),
      IsoFormat(DateTime(2025, 1, 28, 11, 0, 0, -300)),
      IsoZ(DateTime(2025, 2, 5, 16, 0, 0, Utc))>>

\* parameter-store contents: nothing, an override in naive China time, an
\* override that does not parse
NaiveOverride ==
    [kind  |-> "json",
     start |-> IsoFormat(Naive(DateTime(2025, 1, 28, 0, 0, 0, Utc))),
     end   |-> IsoFormat(Naive(DateTime(2025, 2, 4, 23, 59, 59, Utc)))]

BrokenOverride ==
    [kind |-> "json", start |-> <<"s", "o", "o", "n">>,
     end |-> IsoFormat(Naive(DateTime(2025, 2, 4, 23, 59, 59, Utc)))]

EmptyStore == <<>>

InitStores == {EmptyStore, 2025 :> NaiveOverride, 2025 :> BrokenOverride}

NoEcsAnswer ==
    [describe |-> "error", list |-> "error", hasGroup |-> FALSE, group |-> <<>>,
     hasServiceName |-> FALSE, serviceName |-> <<>>, arns |-> <<>>]

GroupAnswer ==
    [NoEcsAnswer EXCEPT !.describe = "task", !.hasGroup = TRUE,
                        !.group = GroupPrefix \o CheckoutSvc]

ListAnswer ==
    [NoEcsAnswer EXCEPT !.describe = "none", !.list = "ok", !.arns = <<SvcArn>>]

OkEnv ==
    [ssmUp |-> TRUE, putOk |-> TRUE, ecs |-> GroupAnswer, fault |-> "none",
     faultAt |-> 0, webhook |-> "ok"]

\* the environments of a Planner invocation: all well, or one thing failing
PlannerEnvs ==
    {OkEnv,
     [OkEnv EXCEPT !.ssmUp = FALSE],
     [OkEnv EXCEPT !.putOk = FALSE],
     [OkEnv EXCEPT !.ecs = NoEcsAnswer],
     [OkEnv EXCEPT !.ecs = ListAnswer],
     [OkEnv EXCEPT !.fault = "put_rule", !.faultAt = 1],
     [OkEnv EXCEPT !.fault = "put_targets", !.faultAt = 1],
     [OkEnv EXCEPT !.fault = "put_targets", !.faultAt = 2],
     [OkEnv EXCEPT !.fault = "no_executor_arn"],
     [OkEnv EXCEPT !.webhook = "fails"],
     [OkEnv EXCEPT !.webhook = "unset"]}

CoreEnvs == {OkEnv, [OkEnv EXCEPT !.fault = "put_targets", !.faultAt = 2]}

PlannerEvent(start, end, entities, test_mode) ==
    [startTime |-> start, endTime |-> end, entities |-> entities,
     test_mode |-> test_mode]

\* (startTime, endTime) pairs: inside the national holiday, outside every
\* holiday, inside without zone designator, absent, unparsable
EventWindows ==
    {<<Some(WindowTimes[5]), Some(WindowTimes[6])>>,
     <<Some(WindowTimes[1]), Some(WindowTimes[2])>>,
     <<Some(IsoFormat(Naive(DateTime(2025, 10, 2, 0, 0, 0, Utc)))),
       Some(IsoFormat(Naive(DateTime(2025, 10, 3, 0, 0, 0, Utc))))>>,
     <<Some(IsoFormat(Naive(DateTime(2025, 6, 1, 0, 0, 0, Utc)))),
       Some(IsoFormat(Naive(DateTime(2025, 6, 2, 0, 0, 0, Utc))))>>,
     <<None, Some(WindowTimes[6])>>,
     <<Some(<<"s", "o", "o", "n">>), Some(WindowTimes[6])>>}

EntityLists ==
    {<<>>, <<SvcArn>>, <<SvcArn, SvcPair>>, <<SvcPair, SvcPair>>, <<TaskArn>>,
     <<BadEcs, OtherPair>>, <<ThreePair, NoEcs, SvcPair>>,
     <<PairSvc38607, PairSvc48158>>, <<EmptyServicePair>>}

PlannerEvents ==
    {PlannerEvent(w[1], w[2], l, t) : w \in EventWindows, l \in EntityLists,
                                      t \in BOOLEAN}

CoreEvents ==
    {PlannerEvent(Some(WindowTimes[5]), Some(WindowTimes[6]), <<SvcArn>>, FALSE),
     PlannerEvent(Some(WindowTimes[5]), Some(WindowTimes[6]), <<SvcArn, SvcPair>>, FALSE),
     PlannerEvent(Some(WindowTimes[5]), Some(WindowTimes[6]), <<SvcArn>>, TRUE),
     PlannerEvent(Some(WindowTimes[1]), Some(WindowTimes[2]), <<SvcArn>>, FALSE)}

---------------------------------------------------------------------------
(* State machine: the Planner                                              *)

NoOverlap == [conflict |-> FALSE, holidays |-> <<>>, calls |-> <<>>]

NoResult == [status |-> "", message |-> ""]

NoEvent ==
    [resource_id |-> None, cluster_name |-> None, service_name |-> None,
     restart_reason |-> None, rule_name |-> None, test_mode |-> FALSE]

NoResponse == [statusCode |-> 0]

ExecutorIdle ==
    /\ ePc = "idle"
    /\ eEvent = NoEvent
    /\ eResult = NoResult
    /\ eCalls = <<>>
    /\ eNotifs = <<>>
    /\ eResponse = NoResponse

execVars == <<ePc, eEvent, eResult, eCalls, eNotifs, eResponse>>

\* no function is being called on its own
CallIdle == call = [fn |-> "none"] /\ ret = [done |-> FALSE] /\ resolving = <<>>

Init ==
    /\ clock = 1
    /\ ssm = EmptyStore
    /\ rules = <<>>
    /\ history = <<>>
    /\ window = <<>>
    /\ overlap = NoOverlap
    /\ ExecutorIdle
    /\ CallIdle

\* time passes
Tick ==
    /\ clock < MaxClock
    /\ clock' = clock + 1
    /\ UNCHANGED <<ssm, rules, history, window, overlap, execVars, call, ret, resolving>>

\* the effect of one invocation whose outcome is out; the history keeps the
\* environment and the stores the invocation ran against
PlannerEffect(event, env, out) ==
    /\ ssm' = out.store
    /\ rules' = out.rules
    /\ history' = Append(history,
          [event |-> event, clock |-> clock, env |-> env, store |-> ssm,
           rules |-> rules, stage |-> out.stage,
           status |-> out.status, conflict |-> out.conflict,
           restart_time |-> out.restart_time, holidays |-> out.holidays,
           created |-> out.created, notifs |-> out.notifs, calls |-> out.calls])

\* one invocation of the smart-handler lambda_handler
PlannerRun(events, envs, maxRuns) ==
    /\ Len(history) < maxRuns
    /\ \E event \in events, env \in envs :
          PlannerEffect(event, env, PlannerHandler(event, Now(clock), ssm, rules, env))
    /\ UNCHANGED <<clock, window, overlap, execVars, call, ret, resolving>>

PlannerInvoke == PlannerRun(CoreEvents, CoreEnvs, MaxPlannerRuns)

Next == Tick \/ PlannerInvoke

\* maintenance events delivered, and delivered again, as time passes
Spec == Init /\ [][Next]_vars

\* one invocation, at any instant, on any store, for any event and environment
InitPlanner ==
    /\ clock \in 1..MaxClock
    /\ ssm \in {EmptyStore, 2025 :> NaiveOverride}
    /\ rules = <<>>
    /\ history = <<>>
    /\ window = <<>>
    /\ overlap = NoOverlap
    /\ ExecutorIdle
    /\ CallIdle

PlannerOnce == PlannerRun(PlannerEvents, PlannerEnvs, 1)

SpecPlanner == InitPlanner /\ [][PlannerOnce]_vars

---------------------------------------------------------------------------
(* State machine: the overlap decision on its own                          *)

SsmEnvs ==
    {[OkEnv EXCEPT !.ssmUp = up, !.putOk = put] : up \in BOOLEAN, put \in BOOLEAN}

InitOverlap ==
    /\ clock = 1
    /\ ssm \in InitStores
    /\ rules = <<>>
    /\ history = <<>>
    /\ window = <<>>
    /\ overlap = NoOverlap
    /\ ExecutorIdle
    /\ CallIdle

\* the effect of check_holiday_conflict returning chk for the window
OverlapEffect(start, end, chk) ==
    /\ window' = <<start, end>>
    /\ overlap' = [conflict |-> chk.conflict, holidays |-> chk.holidays,
                   calls |-> chk.calls]
    /\ ssm' = chk.store

\* the window (start, end), where start <= end, is checked
CheckWindow(ps, pe, env) ==
    /\ ps.ok /\ pe.ok
    /\ DtLE(EnsureAware(ps.dt), EnsureAware(pe.dt))
    /\ OverlapEffect(ps.dt, pe.dt, CheckHolidayConflict(ps.dt, pe.dt, ssm, env))

\* lines 28-34: both times are parsed and check_holiday_conflict is called
CheckOverlap ==
    /\ window = <<>>
    /\ \E i \in 1..NumWindowTimes, j \in 1..NumWindowTimes, env \in SsmEnvs :
          CheckWindow(ParseEventTime(WindowTimes[i]), ParseEventTime(WindowTimes[j]), env)
    /\ UNCHANGED <<clock, rules, history, execVars, call, ret, resolving>>

SpecOverlap == InitOverlap /\ [][CheckOverlap]_vars

---------------------------------------------------------------------------
(* restart-executor: lambda_handler                                        *)

Unknown == <<"u", "n", "k", "n", "o", "w", "n">>

ScheduledRestart ==
    <<"s","c","h","e","d","u","l","e","d","_","r","e","s","t","a","r","t">>

\* event.get(key, default); an event value is None (key absent) or a string
GetOr(o, default) == IF o.some THEN o.val ELSE default

\* line 19 without the test of service_name
ValidEventNoService(event) ==
    Truthy(event.resource_id) /\ Truthy(event.cluster_name)

\* line 19: all([resource_id, cluster_name, service_name])
ValidEvent(event) ==
    Truthy(event.resource_id) /\ Truthy(event.cluster_name)
        /\ Truthy(event.service_name)

UpdateService(cluster_name, service_name, ok) ==
    [op |-> "update_service", arg |-> <<cluster_name, service_name>>, ok |-> ok]

\* restart_ecs_service(...): ok is whether update_service succeeds; the
\* exception is logged and raised again (lines 110-112)
RestartEcsService(cluster_name, service_name, ok) ==
    [result |-> IF ok THEN [status |-> "success", message |-> "restarted"]
                ELSE [status |-> "", message |-> ""],
     calls  |-> <<UpdateService(cluster_name, service_name, ok)>>,
     raised |-> ~ok]

\* lines 23-32 with the restart made also in test mode
RestartOrSimulateAlways(event, ok) ==
    RestartEcsService(event.cluster_name, event.service_name, ok)

\* lines 23-32: the restart, or its simulation in test mode
RestartOrSimulate(event, ok) ==
    IF event.test_mode
    THEN [result |-> [status |-> "test_success", message |-> "simulated"],
          calls |-> <<>>, raised |-> FALSE]
    ELSE RestartEcsService(event.cluster_name, event.service_name, ok)

\* line 35 without the test of rule_name
ShouldCleanupAnyRule(event) == ~event.test_mode

\* line 35: if rule_name and not test_mode
ShouldCleanup(event) == Truthy(event.rule_name) /\ ~event.test_mode

RemoveTargets(rule_name, ok) ==
    [op |-> "remove_targets", arg |-> <<rule_name>>, ok |-> ok]

DeleteRule(rule_name, ok) ==
    [op |-> "delete_rule", arg |-> <<rule_name>>, ok |-> ok]

WithoutTargets(store, rule_name) ==
    [store EXCEPT ![rule_name].targets = {t \in @ : t.Id # "1"}]

WithoutRule(store, rule_name) ==
    [n \in DOMAIN store \ {rule_name} |-> store[n]]

\* cleanup_rule with the exception of a failing call raised to the caller
CleanupRuleRaising(rule_name, store, outcome) ==
    IF rule_name \notin DOMAIN store \/ outcome = "remove_fails"
    THEN [store |-> store, calls |-> <<RemoveTargets(rule_name, FALSE)>>,
          raised |-> TRUE]
    ELSE IF outcome = "delete_fails"
    THEN [store |-> WithoutTargets(store, rule_name),
          calls |-> <<RemoveTargets(rule_name, TRUE), DeleteRule(rule_name, FALSE)>>,
          raised |-> TRUE]
    ELSE [store |-> WithoutRule(store, rule_name),
          calls |-> <<RemoveTargets(rule_name, TRUE), DeleteRule(rule_name, TRUE)>>,
          raised |-> FALSE]

\* cleanup_rule(rule_name): remove_targets, then delete_rule; outcome names
\* the call that fails ("remove_fails", "delete_fails") or is "ok";
\* remove_targets on a rule that does not exist fails. The exception is
\* logged and not raised (lines 130-132).
CleanupRule(rule_name, store, outcome) ==
    IF rule_name \notin DOMAIN store \/ outcome = "remove_fails"
    THEN [store |-> store, calls |-> <<RemoveTargets(rule_name, FALSE)>>,
          raised |-> FALSE]
    ELSE IF outcome = "delete_fails"
    THEN [store |-> WithoutTargets(store, rule_name),
          calls |-> <<RemoveTargets(rule_name, TRUE), DeleteRule(rule_name, FALSE)>>,
          raised |-> FALSE]
    ELSE [store |-> WithoutRule(store, rule_name),
          calls |-> <<RemoveTargets(rule_name, TRUE), DeleteRule(rule_name, TRUE)>>,
          raised |-> FALSE]

\* line 43
OutcomeStatus(result) ==
    IF result.status \in {"success", "test_success"} THEN "SUCCESS" ELSE "FAILED"

\* send_restart_notification with a failing webhook call raised to the caller
NotificationRaisesOnFailure(webhook) == webhook = "fails"

\* lines 278-284: a failing webhook call is logged and not raised
NotificationRaises(webhook) == FALSE

\* one call of send_restart_notification: the notification_data built at
\* lines 263-275 and whether the webhook took it
RestartNotification(resource_id, status, cluster_name, service_name, restart_reason, test_mode, result, hasError, webhook) ==
    [event_type |-> "ECS_RESTART_RESULT", resource_id |-> resource_id,
     cluster_name |-> cluster_name, service_name |-> service_name,
     status |-> status, restart_reason |-> restart_reason,
     test_mode |-> test_mode, result |-> result, hasError |-> hasError,
     delivered |-> webhook = "ok"]

\* lines 41-49
SuccessPathNotification(event, result, webhook) ==
    RestartNotification(event.resource_id, OutcomeStatus(result),
        event.cluster_name, event.service_name,
        Some(GetOr(event.restart_reason, ScheduledRestart)), event.test_mode, result,
        FALSE, webhook)

\* lines 66-74
FailurePathNotification(event, webhook) ==
    RestartNotification(Some(GetOr(event.resource_id, Unknown)), "FAILED",
        Some(GetOr(event.cluster_name, Unknown)),
        Some(GetOr(event.service_name, Unknown)),
        Some(GetOr(event.restart_reason, ScheduledRestart)), event.test_mode,
        NoResult, TRUE, webhook)

---------------------------------------------------------------------------
(* State machine: the Executor                                             *)

ProdCluster == <<"p","r","o","d","-","c","l","u","s","t","e","r">>

\* the rule store after the Planner has scheduled the restart of one service
PlannedStore ==
    PlannerHandler(
        PlannerEvent(Some(WindowTimes[5]), Some(WindowTimes[6]), <<SvcArn>>, FALSE),
        Now(1), EmptyStore, <<>>, OkEnv).rules

PlannedRule == RuleName(SvcArn, CalculateNext4am(Now(1)))

\* the name of a rule that is not in the store
StaleRule == RuleName(SvcPair, CalculateNext4am(Now(2)))

\* the event EventBridge delivers for a target: its Input, verbatim
FiredEvent(input) ==
    [resource_id |-> Some(input.resource_id),
     cluster_name |-> Some(input.cluster_name),
     service_name |-> Some(input.service_name),
     restart_reason |-> Some(input.restart_reason),
     rule_name |-> Some(input.rule_name), test_mode |-> FALSE]

FiredEvents(store) ==
    {FiredEvent(t.Input) : t \in UNION {store[n].targets : n \in DOMAIN store}}

\* events sent to the Executor by hand: each key absent, empty or set
DirectEvents ==
    {[resource_id |-> r, cluster_name |-> c, service_name |-> sv,
      restart_reason |-> None, rule_name |-> n, test_mode |-> t] :
        r \in {None, Some(<<>>), Some(CheckoutSvc)},
        c \in {None, Some(ProdCluster)},
        sv \in {None, Some(<<>>), Some(CheckoutSvc)},
        n \in {None, Some(<<>>), Some(PlannedRule), Some(StaleRule)},
        t \in BOOLEAN}

Webhooks == {"unset", "ok", "fails"}

InitExecutor ==
    /\ clock = 1
    /\ ssm = EmptyStore
    /\ rules \in {<<>>, PlannedStore}
    /\ history = <<>>
    /\ window = <<>>
    /\ overlap = NoOverlap
    /\ ExecutorIdle
    /\ CallIdle

planVars == <<clock, ssm, history, window, overlap, call, ret, resolving>>

\* RECEIVED: the Executor is invoked, by a rule firing or by hand
ExecInvoke ==
    /\ ePc \in {"idle", "done"}
    /\ \E event \in DirectEvents \cup FiredEvents(rules) : eEvent' = event
    /\ ePc' = "received"
    /\ eResult' = NoResult
    /\ eCalls' = <<>>
    /\ eNotifs' = <<>>
    /\ eResponse' = NoResponse
    /\ UNCHANGED <<rules, planVars>>

\* VALIDATED, or the ValueError of line 20
ExecValidate ==
    /\ ePc = "received"
    /\ ePc' = IF ValidEvent(eEvent) THEN "validated" ELSE "except"
    /\ UNCHANGED <<eEvent, eResult, eCalls, eNotifs, eResponse, rules, planVars>>

RestartEffect(r) ==
    /\ eResult' = r.result
    /\ eCalls' = eCalls \o r.calls
    /\ ePc' = IF r.raised THEN "except" ELSE "restarted"

\* RESTART_ISSUED or RESTART_FAILED: lines 23-32
ExecRestart ==
    /\ ePc = "validated"
    /\ \E ok \in BOOLEAN : RestartEffect(RestartOrSimulate(eEvent, ok))
    /\ UNCHANGED <<eEvent, eNotifs, eResponse, rules, planVars>>

CleanupEffect(c) ==
    /\ rules' = c.store
    /\ eCalls' = eCalls \o c.calls
    /\ ePc' = IF c.raised THEN "except" ELSE "cleaned"

\* CLEANED_UP: lines 35-38
ExecCleanup ==
    /\ ePc = "restarted"
    /\ IF ShouldCleanup(eEvent)
       THEN \E outcome \in {"ok", "remove_fails", "delete_fails"} :
               CleanupEffect(CleanupRule(GetOr(eEvent.rule_name, <<>>), rules, outcome))
       ELSE /\ ePc' = "cleaned"
            /\ UNCHANGED <<rules, eCalls>>
    /\ UNCHANGED <<eEvent, eResult, eNotifs, eResponse, planVars>>

\* NOTIFIED: lines 41-49
ExecNotify ==
    /\ ePc = "cleaned"
    /\ \E webhook \in Webhooks :
          /\ eNotifs' = Append(eNotifs, SuccessPathNotification(eEvent, eResult, webhook))
          /\ ePc' = IF NotificationRaises(webhook) THEN "except" ELSE "notified"
    /\ UNCHANGED <<eEvent, eResult, eCalls, eResponse, rules, planVars>>

\* lines 51-59
ExecReturn ==
    /\ ePc = "notified"
    /\ eResponse' = [statusCode |-> 200]
    /\ ePc' = "done"
    /\ UNCHANGED <<eEvent, eResult, eCalls, eNotifs, rules, planVars>>

\* lines 61-84: the failure notification and the 500 response
ExecExcept ==
    /\ ePc = "except"
    /\ \E webhook \in Webhooks :
          eNotifs' = Append(eNotifs, FailurePathNotification(eEvent, webhook))
    /\ eResponse' = [statusCode |-> 500]
    /\ ePc' = "done"
    /\ UNCHANGED <<eEvent, eResult, eCalls, rules, planVars>>

NextExecutor ==
    \/ ExecInvoke
    \/ ExecValidate
    \/ ExecRestart
    \/ ExecCleanup
    \/ ExecNotify
    \/ ExecReturn
    \/ ExecExcept

SpecExecutor == InitExecutor /\ [][NextExecutor]_vars

---------------------------------------------------------------------------
(* State machine: the Planner schedules, the rule fires, the Executor runs *)

\* the environments of CoreEnvs with each state of the webhook
WebhookEnvs == {[env EXCEPT !.webhook = w] : env \in CoreEnvs, w \in Webhooks}

\* events sent to the Executor by hand, next to the ones the rules fire
HandEvents ==
    {[resource_id |-> Some(CheckoutSvc), cluster_name |-> Some(ProdCluster),
      service_name |-> sv, restart_reason |-> None,
      rule_name |-> Some(PlannedRule), test_mode |-> t] :
        sv \in {None, Some(CheckoutSvc)}, t \in BOOLEAN}

\* a maintenance event is delivered to the Planner
PlannerDeliver == PlannerRun(CoreEvents, WebhookEnvs, 1)

\* a rule of the Planner fires its target, or the Executor is invoked by hand
ExecFire ==
    /\ ePc \in {"idle", "done"}
    /\ \E event \in FiredEvents(rules) \cup HandEvents : eEvent' = event
    /\ ePc' = "received"
    /\ eResult' = NoResult
    /\ eCalls' = <<>>
    /\ eNotifs' = <<>>
    /\ eResponse' = NoResponse
    /\ UNCHANGED <<rules, planVars>>

NextPipeline ==
    \/ PlannerDeliver
    \/ ExecFire
    \/ ExecValidate
    \/ ExecRestart
    \/ ExecCleanup
    \/ ExecNotify
    \/ ExecReturn
    \/ ExecExcept

SpecPipeline == Init /\ [][NextPipeline]_vars

---------------------------------------------------------------------------
(* State machine: functions of the smart-handler called on their own      *)

\* the instants datetime.now(timezone.utc) can return: every hour of a day,
\* the minutes and seconds around the test of line 273, at the end of a
\* month, of a year and of February in a leap year
NowInstants ==
    {[DateTime(d[1], d[2], d[3], h, mi, sec, Utc) EXCEPT !.microsecond = us] :
        d \in {<<2025, 10, 8>>, <<2025, 12, 31>>, <<2024, 2, 28>>},
        h \in 0..23, mi \in {0, 49, 50, 59}, sec \in {0, 59}, us \in {0, 999999}}

\* entity values: the identifiers of the Planner events, the empty string,
\* 'arn:aws' (no '/'), 'arn:aws/a/b' (no resource type), a cluster ARN,
\* '|' and a pair with blanks
EntityValues ==
    {SvcArn, SvcPair, TaskArn, OtherPair, BadEcs, ThreePair, NoEcs,
     <<>>,
     <<"a","r","n",":","a","w","s">>,
     <<"a","r","n",":","a","w","s","/","a","/","b">>,
     <<"a","r","n",":","a","w","s",":","e","c","s",":","r",":","1",":",
       "c","l","u","s","t","e","r","/","a","/","b">>,
     <<"|">>,
     <<" ","c","2"," ","|"," ","s","2"," ">>}

\* what describe_tasks and list_services can answer
EcsAnswers ==
    {NoEcsAnswer, GroupAnswer, ListAnswer,
     [NoEcsAnswer EXCEPT !.describe = "task", !.hasServiceName = TRUE,
                         !.serviceName = CheckoutSvc],
     [NoEcsAnswer EXCEPT !.describe = "task", !.hasGroup = TRUE,
                         !.group = <<"f","a","m","i","l","y",":","x">>],
     [NoEcsAnswer EXCEPT !.describe = "none", !.list = "ok"]}

\* cluster and service names, as ECS allows them
EcsNames ==
    {<<"a">>, ProdCluster, CheckoutSvc, <<"e","c","s">>, <<"c","_","1">>,
     <<"s","e","r","v","i","c","e">>, <<"t","a","s","k">>}

\* arn:aws:ecs:<region>:<account>:service/<cluster>/<service>
ServiceArn(region, account, cluster, service) ==
    <<"a","r","n",":","a","w","s",":","e","c","s",":">> \o region \o <<":">>
        \o account \o <<":","s","e","r","v","i","c","e","/">> \o cluster
        \o <<"/">> \o service

\* a stored override that carries a zone, and one whose end precedes its start
AwareOverride ==
    [kind  |-> "json",
     start |-> IsoFormat(DateTime(2025, 1, 28, 0, 0, 0, ChinaTz)),
     end   |-> IsoFormat(DateTime(2025, 2, 4, 23, 59, 59, Utc))]

InvertedOverride ==
    [kind  |-> "json",
     start |-> IsoFormat(Naive(DateTime(2025, 2, 4, 23, 59, 59, Utc))),
     end   |-> IsoFormat(Naive(DateTime(2025, 1, 28, 0, 0, 0, Utc)))]

\* fire times: 04:00 UTC of a day, from 1970 to 2037
FireTimes ==
    {DateTime(1970, 1, 1, 4, 0, 0, Utc), DateTime(2001, 9, 9, 4, 0, 0, Utc),
     DateTime(2025, 9, 29, 4, 0, 0, Utc), DateTime(2037, 12, 31, 4, 0, 0, Utc)}

\* the arguments of create_restart_schedule other than resource_arn and
\* restart_time, the rule store it meets and the step that fails
CreateArgs ==
    {[resource_id |-> sv, cluster_name |-> c, service_name |-> sv, test_mode |-> t,
      store |-> st, fault |-> f] :
        sv \in {CheckoutSvc, <<"s","2">>}, c \in {ProdCluster}, t \in BOOLEAN,
        st \in {<<>>, PlannedStore}, f \in {"none", "put_targets"}}

\* the calls made: a function and its arguments
CallInputs ==
    {[fn |-> "calculate_next_4am", now |-> n] : n \in NowInstants}
    \cup {[fn |-> "parse_ecs_resource_info", entity_value |-> e, ecs |-> a] :
              e \in EntityValues, a \in EcsAnswers}
    \cup {[fn |-> "parse_ecs_resource_info twice", cluster |-> c, service |-> sv,
           region |-> r] :
              c \in EcsNames, sv \in EcsNames,
              r \in {<<"u","s","-","e","a","s","t","-","1">>, <<"r">>}}
    \cup {[fn |-> "create_restart_schedule twice", resource_arn |-> e,
           restart_time |-> ft, first |-> a, second |-> b] :
              e \in {SvcArn, SvcPair, NoEcs}, ft \in FireTimes,
              a \in CreateArgs, b \in CreateArgs}
    \cup {[fn |-> "get_spring_festival_dates", year |-> y, store |-> st, env |-> env] :
              y \in {2024, 2025, 2031},
              st \in InitStores \cup {2025 :> AwareOverride, 2025 :> InvertedOverride},
              env \in SsmEnvs}

InitCalls ==
    /\ clock = 1
    /\ ssm = EmptyStore
    /\ rules = <<>>
    /\ history = <<>>
    /\ window = <<>>
    /\ overlap = NoOverlap
    /\ ExecutorIdle
    /\ call \in CallInputs
    /\ ret = [done |-> FALSE]
    /\ resolving = <<>>

stateVars == <<clock, ssm, rules, history, window, overlap, execVars, resolving>>

\* calculate_next_4am() is called at the instant call.now
CallNext4am ==
    /\ call.fn = "calculate_next_4am"
    /\ ~ret.done
    /\ ret' = [done |-> TRUE, val |-> CalculateNext4am(call.now)]
    /\ UNCHANGED <<call, stateVars>>

\* parse_ecs_resource_info(entity_value)
CallParse ==
    /\ call.fn = "parse_ecs_resource_info"
    /\ ~ret.done
    /\ ret' = [done |-> TRUE,
               val |-> ParseEcsResourceInfo(call.entity_value, call.ecs)]
    /\ UNCHANGED <<call, stateVars>>

\* parse_ecs_resource_info on the service ARN and on the pair of one service
CallParseTwice ==
    /\ call.fn = "parse_ecs_resource_info twice"
    /\ ~ret.done
    /\ ret' = [done |-> TRUE,
               val |-> <<ParseEcsResourceInfo(
                            ServiceArn(call.region, <<"1","1","1">>, call.cluster,
                                       call.service), NoEcsAnswer),
                         ParseEcsResourceInfo(
                            call.cluster \o <<"|">> \o call.service, NoEcsAnswer)>>]
    /\ UNCHANGED <<call, stateVars>>

\* what a call of get_spring_festival_dates leaves: the interval returned,
\* the parameter-store calls made and the store afterwards
SpringFestivalReturn(r) ==
    [done |-> TRUE, val |-> r.dates, calls |-> r.calls, store |-> r.store]

\* get_spring_festival_dates(year) against the store call.store
CallSpringFestival ==
    /\ call.fn = "get_spring_festival_dates"
    /\ ~ret.done
    /\ ret' = SpringFestivalReturn(
                  GetSpringFestivalDates(call.year, call.store, call.env))
    /\ UNCHANGED <<call, stateVars>>

\* create_restart_schedule with the arguments args for one identifier and
\* one fire time
CreateFor(args, resource_arn, restart_time) ==
    CreateRestartSchedule(args.resource_id, args.cluster_name, args.service_name,
                          restart_time, resource_arn, args.test_mode, args.store,
                          args.fault)

\* create_restart_schedule is called twice for one identifier and one fire time
CallCreateTwice ==
    /\ call.fn = "create_restart_schedule twice"
    /\ ~ret.done
    /\ ret' = [done |-> TRUE,
               val |-> <<CreateFor(call.first, call.resource_arn, call.restart_time),
                         CreateFor(call.second, call.resource_arn, call.restart_time)>>]
    /\ UNCHANGED <<call, stateVars>>

NextCalls ==
    \/ CallCreateTwice
    \/ CallNext4am
    \/ CallParse
    \/ CallParseTwice
    \/ CallSpringFestival

SpecCalls == InitCalls /\ [][NextCalls]_vars

---------------------------------------------------------------------------
(* State machine: resolutions of the movable holiday running concurrently  *)

NumResolutions == 2

\* the years resolved at the same time
RaceYears == {2025, 2031}

\* what an operator stores for a year
OperatorValues == {NaiveOverride, AwareOverride}

InitRace ==
    /\ clock = 1
    /\ ssm \in {EmptyStore, 2025 :> NaiveOverride}
    /\ rules = <<>>
    /\ history = <<>>
    /\ window = <<>>
    /\ overlap = NoOverlap
    /\ ExecutorIdle
    /\ call = [fn |-> "none"]
    /\ ret = [done |-> FALSE]
    /\ \E year \in RaceYears :
          resolving = [r \in 1..NumResolutions |->
                          [pc |-> "start", year |-> year, dates |-> <<>>]]

raceVars == <<clock, rules, history, window, overlap, execVars, call, ret>>

\* the resolution returns the interval dates
Returns(r, dates) ==
    resolving' = [resolving EXCEPT ![r].pc = "done", ![r].dates = dates]

\* lines 179-205 and 240-242: get_parameter answers, and the stored value is
\* returned; or it raises and the built-in interval is returned; or it
\* raises ParameterNotFound and the handler of line 207 is entered
ResolveLookup(r) ==
    /\ resolving[r].pc = "start"
    /\ \E up \in BOOLEAN :
          IF up /\ resolving[r].year \notin DOMAIN ssm
          THEN resolving' = [resolving EXCEPT ![r].pc = "not_found"]
          ELSE Returns(r, GetSpringFestivalDates(resolving[r].year, ssm,
                                                 [OkEnv EXCEPT !.ssmUp = up]).dates)
    /\ UNCHANGED <<ssm, raceVars>>

\* lines 207-238: put_parameter with Overwrite=True writes the built-in
\* interval whatever the store holds by now, or fails; the built-in interval
\* is returned
ResolveWriteBack(r) ==
    /\ resolving[r].pc = "not_found"
    /\ \E ok \in BOOLEAN :
          ssm' = IF ok
                 THEN (resolving[r].year :>
                          SeedValue(GetDefaultSpringFestivalDates(resolving[r].year)))
                      @@ ssm
                 ELSE ssm
    /\ Returns(r, GetDefaultSpringFestivalDates(resolving[r].year))
    /\ UNCHANGED raceVars

\* another writer stores an override for a year being resolved
OperatorPut ==
    /\ \E r \in DOMAIN resolving, v \in OperatorValues :
          /\ Stored(ssm, resolving[r].year) # v
          /\ ssm' = (resolving[r].year :> v) @@ ssm
    /\ UNCHANGED <<resolving, raceVars>>

NextRace ==
    \/ \E r \in DOMAIN resolving : ResolveLookup(r)
    \/ \E r \in DOMAIN resolving : ResolveWriteBack(r)
    \/ OperatorPut

SpecRace == InitRace /\ [][NextRace]_vars

---------------------------------------------------------------------------
(* Properties of the Planner                                               *)

\* the maintenance window of a Planner invocation, as the handler parses it
WindowStart(h) == EnsureAware(ParseEventTime(h.event.startTime.val).dt)

WindowEnd(h) == EnsureAware(ParseEventTime(h.event.endTime.val).dt)

\* C1: whenever the Planner detects a conflict and schedules a restart, the
\* fire time it schedules is earlier than the start of every blackout
\* interval the maintenance window overlaps.
C1_RestartBeforeBlackout ==
    \A k \in 1..Len(history) :
        (/\ history[k].stage = "scheduled"
         /\ history[k].conflict
         /\ history[k].created # <<>>) =>
            \A i \in 1..Len(history[k].holidays) :
                IntervalsOverlap(WindowStart(history[k]), WindowEnd(history[k]),
                                 history[k].holidays[i][1], history[k].holidays[i][2])
                    => DtLT(history[k].restart_time, history[k].holidays[i][1])

\* the rule ids an invocation derived, entity by entity
RuleIds(h) == [k \in 1..Len(h.created) |-> h.created[k].rule_name]

\* C9: processing the same Planner event again yields, for every affected
\* resource, the same rule_id as the first processing.
C9_RedeliverySameRuleIds ==
    \A i \in 1..Len(history), j \in 1..Len(history) :
        (/\ i < j
         /\ history[i].event = history[j].event
         /\ history[i].stage = "scheduled"
         /\ history[j].stage = "scheduled")
            => RuleIds(history[j]) = RuleIds(history[i])

\* the (cluster_name, service_name) pairs a rule's targets restart
RuleResources(n) ==
    {<<t.Input.cluster_name, t.Input.service_name>> : t \in rules[n].targets}

\* C10: at most one pending schedule entry exists per resolved resource
\* (cluster_name, service_name), in whatever identifier shapes and however
\* often the resource is listed.
C10_OneEntryPerResource ==
    \A n1 \in DOMAIN rules, n2 \in DOMAIN rules :
        (RuleResources(n1) \cap RuleResources(n2) # {}) => n1 = n2

\* the identity is the sentinel, in its cluster or in its service
Unresolved(ident) == ident[1] = UnknownCluster \/ ident[2] = UnknownService

\* the affected entities the loop does not skip
Resolvable(h) ==
    SelectSeq(h.event.entities,
              LAMBDA e : /\ LooksLikeEcs(e)
                         /\ ~Unresolved(ParseEcsResourceInfo(e, h.env.ecs)))

CreatedEntities(h) == [k \in 1..Len(h.created) |-> h.created[k].entity]

\* the invocation met a conflict, no registration was made to fail and the
\* window start carries a zone (without one, line 96 raises)
RegistrationsSucceed(h) ==
    h.conflict /\ h.env.fault = "none"
        /\ ParseEventTime(h.event.startTime.val).dt.aware

\* C12: the Planner never creates a schedule entry for an entity whose
\* resolved identity has cluster unknown-cluster or service unknown-service;
\* such an entity is skipped, the other entities are still processed, and
\* the invocation does not fail because of it.
C12_SentinelSkipped ==
    /\ \A n \in DOMAIN rules : \A t \in rules[n].targets :
          ~Unresolved(<<t.Input.cluster_name, t.Input.service_name>>)
    /\ \A k \in 1..Len(history) :
          /\ \A i \in 1..Len(history[k].created) :
                ~Unresolved(<<history[k].created[i].cluster_name,
                              history[k].created[i].service_name>>)
          /\ RegistrationsSucceed(history[k]) =>
                /\ history[k].status = 200
                /\ CreatedEntities(history[k]) = Resolvable(history[k])

\* a malformed pair and a non-ECS entity are skipped, the service after
\* them is scheduled
C12_Witness ==
    /\ Len(history) = 1
    /\ history[1].event.entities = <<ThreePair, NoEcs, SvcPair>>
    /\ ~history[1].event.test_mode
    /\ history[1].stage = "scheduled"
    /\ CreatedEntities(history[1]) = <<SvcPair>>
    /\ Cardinality(DOMAIN rules) = 1

\* both window bounds were given and parsed, and the overlap was decided
Decided(h) == h.stage \notin {"no_window", "parse_error"}

\* C13: whenever the maintenance window overlaps no blackout interval, the
\* Planner creates no schedule entry, emits exactly one notification, of
\* severity INFO and action NO_ACTION_NEEDED, and returns statusCode 200.
C13_NoConflictNoAction ==
    \A k \in 1..Len(history) :
        (Decided(history[k]) /\ ~history[k].conflict) =>
            /\ history[k].created = <<>>
            /\ \A i \in 1..Len(history[k].calls) :
                  history[k].calls[i][1] \notin {"put_rule", "put_targets"}
            /\ Len(history[k].notifs) = 1
            /\ history[k].notifs[1].severity = "INFO"
            /\ history[k].notifs[1].action = "NO_ACTION_NEEDED"
            /\ history[k].status = 200

\* C18: schedule requests built from two different (raw resource
\* identifier, fire time) pairs never receive the same rule_id.
C18_DistinctPairsDistinctRuleIds ==
    \A k \in 1..Len(history), l \in 1..Len(history) :
        \A i \in 1..Len(history[k].created), j \in 1..Len(history[l].created) :
            (\/ history[k].created[i].entity # history[l].created[j].entity
             \/ history[k].restart_time # history[l].restart_time)
                => history[k].created[i].rule_name # history[l].created[j].rule_name

\* what the invocation of h would have been without test_mode
WithoutTestMode(h) ==
    PlannerHandler([h.event EXCEPT !.test_mode = FALSE], Now(h.clock), h.store,
                   h.rules, h.env)

\* what a notification says, its test_mode flag apart
Said(n) == [event_type |-> n.event_type, action |-> n.action, severity |-> n.severity]

\* the decision, the restart time, the rule ids, the notification and the
\* status of h are those of the outcome o
SameDecision(h, o) ==
    /\ h.conflict = o.conflict
    /\ h.restart_time = o.restart_time
    /\ RuleIds(h) = RuleIds(o)
    /\ Len(h.notifs) = Len(o.notifs)
    /\ \A i \in 1..Len(h.notifs) : Said(h.notifs[i]) = Said(o.notifs[i])
    /\ h.status = o.status

C25_PayloadPassesValidation ==
    \A n \in DOMAIN rules : \A t \in rules[n].targets :
        ValidEvent(FiredEvent(t.Input))

\* C26: every rule that exists after create_restart_schedule returned or
\* raised has its Executor target attached.
C26_NoRuleWithoutTarget ==
    \A n \in DOMAIN rules : rules[n].targets # {}

---------------------------------------------------------------------------
(* Properties of the overlap decision                                      *)

\* an instant normalized to UTC: seconds and microseconds
UtcSeconds(dt) == CivilSeconds(AsTimezone(EnsureAware(dt), Utc))

NotAfter(a, b) ==
    \/ UtcSeconds(a) < UtcSeconds(b)
    \/ UtcSeconds(a) = UtcSeconds(b) /\ a.microsecond <= b.microsecond

\* C2: check_holiday_conflict returns true if and only if
\* W.start <= ib.end and W.end >= ib.start for at least one interval ib of
\* the catalogue, all instants normalized to one zone; zero-length windows
\* follow the same rule.
C2_OverlapIffSomeInterval ==
    window # <<>> =>
        (overlap.conflict <=>
            \E i \in 1..Len(overlap.holidays) :
                /\ NotAfter(window[1], overlap.holidays[i][2])
                /\ NotAfter(overlap.holidays[i][1], window[2]))

\* a zero-length window on the last second of a holiday is a conflict
C2_Witness ==
    /\ window # <<>>
    /\ window[1] = window[2]
    /\ overlap.conflict
    /\ \E i \in 1..Len(overlap.holidays) :
          UtcSeconds(window[1]) = UtcSeconds(overlap.holidays[i][2])

\* an instant without zone read as UTC+8 local time
AssumeChina(dt) == IF ~dt.aware THEN ReplaceTzinfo(dt, ChinaTz) ELSE dt

\* C17: in the overlap decision every instant without zone information, the
\* window's start and end as well as the stored blackout bounds, is read as
\* UTC+8 local time before it is converted and compared.
C17_NaiveReadAsChinaTime ==
    window # <<>> =>
        (overlap.conflict <=>
            \E i \in 1..Len(overlap.holidays) :
                /\ NotAfter(AssumeChina(window[1]), overlap.holidays[i][2])
                /\ NotAfter(overlap.holidays[i][1], AssumeChina(window[2])))

\* the national holiday of the year, in UTC
NationalHolidayUtc(year) ==
    <<DateTime(year, 9, 30, 16, 0, 0, Utc), DateTime(year, 10, 8, 15, 59, 59, Utc)>>

\* the intervals the movable holiday of the year can resolve to: the
\* built-in interval, and for 2025 the stored override
MovableHolidaysUtc(year) ==
    CASE year = 2025 ->
            {<<DateTime(2025, 1, 28, 16, 0, 0, Utc), DateTime(2025, 2, 5, 15, 59, 59, Utc)>>,
             <<DateTime(2025, 1, 27, 16, 0, 0, Utc), DateTime(2025, 2, 4, 15, 59, 59, Utc)>>}
      [] year = 2026 ->
            {<<DateTime(2026, 2, 16, 16, 0, 0, Utc), DateTime(2026, 2, 24, 15, 59, 59, Utc)>>}

\* C29: check_holiday_conflict looks the blackouts up by the year of
\* maintenance_start only: the two intervals it compares against are the
\* national holiday and the movable holiday of that year, also for a window
\* that ends in a later year, and only that year's parameter is written.
C29_CatalogueOfStartYear ==
    window # <<>> =>
        /\ Len(overlap.holidays) = 2
        /\ overlap.holidays[1] = NationalHolidayUtc(window[1].year)
        /\ overlap.holidays[2] \in MovableHolidaysUtc(window[1].year)
        /\ DOMAIN ssm \subseteq {2025, window[1].year}

\* a window from October 2025 to 20 February 2026, inside the movable
\* holiday of 2026: compared with the holidays of 2025, it is no conflict
C29_Witness ==
    /\ window # <<>>
    /\ window[1].year = 2025 /\ window[1].month = 10
    /\ window[2].year = 2026 /\ window[2].month = 2 /\ window[2].day = 20
    /\ overlap.holidays[1][1].year = 2025
    /\ overlap.holidays[2][2].year = 2025
    /\ ~overlap.conflict

---------------------------------------------------------------------------
(* Properties of the Executor                                              *)

MissingKey(event) ==
    ~event.resource_id.some \/ ~event.cluster_name.some \/ ~event.service_name.some

CallsOf(ops) == {i \in 1..Len(eCalls) : eCalls[i].op \in ops}

RestartCalls == CallsOf({"update_service"})

DeleteCalls == CallsOf({"remove_targets", "delete_rule"})

RestartSucceeded == \E i \in RestartCalls : eCalls[i].ok

RestartFailed == \E i \in RestartCalls : ~eCalls[i].ok

CleanupFailed == \E i \in DeleteCalls : ~eCalls[i].ok

\* C3: an event in which resource_id, cluster_name or service_name is
\* missing leads to no restart call and no schedule-delete call, one outcome
\* notification with status FAILED, and statusCode 500.
C3_MissingFieldFails ==
    MissingKey(eEvent) =>
        /\ eCalls = <<>>
        /\ ePc = "done" =>
              /\ Len(eNotifs) = 1
              /\ eNotifs[1].status = "FAILED"
              /\ eResponse.statusCode = 500

C3_Witness ==
    /\ ePc = "done"
    /\ eEvent.resource_id = Some(CheckoutSvc)
    /\ eEvent.cluster_name = Some(ProdCluster)
    /\ eEvent.service_name = None
    /\ eEvent.rule_name = Some(PlannedRule)
    /\ PlannedRule \in DOMAIN rules

C5_RestartFailureAbsorbed ==
    (ePc = "done" /\ ValidEvent(eEvent) /\ RestartFailed) =>
        /\ Len(eNotifs) = 1
        /\ eNotifs[1].status = "FAILED"
        /\ eResponse.statusCode = 200

\* C6: every invocation emits exactly one outcome notification, whichever
\* path is taken.
C6_ExactlyOneNotification ==
    /\ Len(eNotifs) <= 1
    /\ ePc = "done" => Len(eNotifs) = 1

\* the path on which the restart succeeds, the delete fails and the webhook fails
C6_Witness ==
    /\ ePc = "done"
    /\ RestartSucceeded
    /\ CleanupFailed
    /\ Len(eNotifs) = 1
    /\ ~eNotifs[1].delivered

\* C7: a schedule-delete call is made only when the event carries a
\* rule_name, only after validation passed and only after the restart action
\* has been attempted in the same invocation.
C7_CleanupOnlyAfterRestart ==
    \A i \in DeleteCalls :
        /\ Truthy(eEvent.rule_name)
        /\ ValidEvent(eEvent)
        /\ \E j \in RestartCalls : j < i

C7_Witness ==
    /\ \E i \in DeleteCalls : eCalls[i].op = "delete_rule" /\ eCalls[i].ok
    /\ PlannedRule \notin DOMAIN rules

\* C8: a failing schedule-delete call never changes the outcome: once the
\* restart has succeeded the notification status is SUCCESS and the response
\* is 200, whether the delete fails or succeeds.
C8_CleanupFailureSwallowed ==
    (ePc = "done" /\ RestartSucceeded) =>
        /\ Len(eNotifs) = 1
        /\ eNotifs[1].status = "SUCCESS"
        /\ eResponse.statusCode = 200

C8_Witness ==
    /\ ePc = "done"
    /\ RestartSucceeded
    /\ \E i \in DeleteCalls : eCalls[i].op = "delete_rule" /\ ~eCalls[i].ok
    /\ eNotifs[1].status = "SUCCESS"
    /\ eResponse.statusCode = 200

\* C19: after a non-test Executor invocation fired by a schedule entry of
\* the Planner, in which no delete call fails, the entry no longer exists.
C19_FiredEntryDeleted ==
    (/\ ePc = "done"
     /\ eEvent \in FiredEvents(PlannedStore)
     /\ ~CleanupFailed)
        => PlannedRule \notin DOMAIN rules

---------------------------------------------------------------------------
(* Properties of concurrent resolutions                                    *)

\* C28: when resolutions for the same year run concurrently with each other
\* or with another writer of the year's override, the write-back of a
\* resolution never replaces a value that is in the parameter store at the
\* moment of the write.
C28_WriteBackNeverReplaces ==
    [][\A r \in DOMAIN resolving :
          (/\ resolving[r].pc = "not_found"
           /\ resolving'[r].pc = "done"
           /\ resolving[r].year \in DOMAIN ssm)
              => ssm'[resolving[r].year] = ssm[resolving[r].year]]_vars

---------------------------------------------------------------------------
(* Properties of the two components together                               *)

\* what the invocation of h would have been with the webhook delivering
WithDelivery(h) ==
    PlannerHandler(h.event, Now(h.clock), h.store, h.rules,
                   [h.env EXCEPT !.webhook = "ok"])

\* the status, the path and the calls of h are those of the outcome o
SameWorkflow(h, o) ==
    /\ h.status = o.status
    /\ h.stage = o.stage
    /\ h.calls = o.calls
    /\ RuleIds(h) = RuleIds(o)

\* C24: a notification delivery failure never blocks or fails the workflow.
\* The Planner's status and calls are those of the same invocation with the
\* webhook delivering; the Executor's status is 200 exactly when the event
\* is valid and no restart failed, it restarts exactly when the event is
\* valid and not in test mode, and it deletes exactly when the restart
\* succeeded and a rule_name came without test_mode, whatever the webhook did.
C24_DeliveryFailureSwallowed ==
    /\ \A k \in 1..Len(history) : SameWorkflow(history[k], WithDelivery(history[k]))
    /\ ePc = "done" =>
          /\ eResponse.statusCode =
                IF ValidEvent(eEvent) /\ ~RestartFailed THEN 200 ELSE 500
          /\ RestartCalls # {} <=> (ValidEvent(eEvent) /\ ~eEvent.test_mode)
          /\ DeleteCalls # {} <=> (RestartSucceeded /\ ShouldCleanup(eEvent))

\* the webhook failed in both components: the rule was created, fired,
\* restarted the service and was deleted
C24_Witness ==
    /\ Len(history) = 1
    /\ history[1].env.webhook = "fails"
    /\ history[1].env.fault = "none"
    /\ ~history[1].notifs[1].delivered
    /\ history[1].status = 200
    /\ Len(history[1].created) = 1
    /\ ePc = "done"
    /\ eEvent.rule_name = Some(history[1].created[1].rule_name)
    /\ ~eNotifs[1].delivered
    /\ RestartSucceeded
    /\ eResponse.statusCode = 200
    /\ rules = <<>>

---------------------------------------------------------------------------
(* Properties of the functions called on their own                         *)

\* seconds from a to b, whole seconds only
SecondsBetween(a, b) == Timestamp(b) - Timestamp(a)

\* C11: for every current instant now, calculate_next_4am returns an instant
\* at least ten minutes later than now.
C11_AtLeastGuardBufferAhead ==
    (call.fn = "calculate_next_4am" /\ ret.done) =>
        \/ SecondsBetween(call.now, ret.val) > 10 * 60
        \/ /\ SecondsBetween(call.now, ret.val) = 10 * 60
           /\ ret.val.microsecond >= call.now.microsecond

\* the last microsecond before 03:50: today's 04:00 is returned
C11_Witness ==
    /\ call.fn = "calculate_next_4am"
    /\ ret.done
    /\ call.now.hour = 3 /\ call.now.minute = 49 /\ call.now.second = 59
    /\ call.now.microsecond = 999999
    /\ ret.val.day = call.now.day
    /\ ret.val.hour = 4 /\ ret.val.minute = 0

\* the number of fields a split on '|' gives
PipeFields(e) == Cardinality({i \in 1..Len(e) : e[i] = "|"}) + 1

ArnShaped(e) == StartsWith(e, <<"a","r","n",":","a","w","s">>)

PairShaped(e) == ~ArnShaped(e) /\ PipeFields(e) > 1

\* C14: parse_ecs_resource_info is total: for every string and every outcome
\* of the task-to-service lookup it returns a (cluster_name, service_name)
\* pair; an input of no known shape, and a pair-form input whose split on
\* '|' gives a field count other than two, returns the sentinel.
C14_ParseTotal ==
    (call.fn = "parse_ecs_resource_info" /\ ret.done) =>
        /\ DOMAIN ret.val = 1..2
        /\ (~ArnShaped(call.entity_value) /\ ~PairShaped(call.entity_value))
              => ret.val = Sentinel
        /\ (PairShaped(call.entity_value) /\ PipeFields(call.entity_value) # 2)
              => ret.val = Sentinel

\* 'a|b|c' gives the sentinel
C14_Witness ==
    /\ call.fn = "parse_ecs_resource_info"
    /\ ret.done
    /\ call.entity_value = ThreePair
    /\ ret.val = Sentinel

\* C15: for every cluster name c and service name s, the service ARN
\* arn:aws:ecs:<region>:<account>:service/c/s and the pair c|s resolve to the
\* same identity (c, s).
C15_ArnAndPairAgree ==
    (call.fn = "parse_ecs_resource_info twice" /\ ret.done) =>
        /\ ret.val[1] = <<call.cluster, call.service>>
        /\ ret.val[2] = ret.val[1]

C15_Witness ==
    /\ call.fn = "parse_ecs_resource_info twice"
    /\ ret.done
    /\ call.cluster = ProdCluster
    /\ call.service = CheckoutSvc
    /\ ret.val = <<<<ProdCluster, CheckoutSvc>>, <<ProdCluster, CheckoutSvc>>>>

\* C16: for every year and every behaviour of the parameter store,
\* get_spring_festival_dates returns an interval (start, end) with
\* start <= end.
C16_SpringFestivalOrdered ==
    (call.fn = "get_spring_festival_dates" /\ ret.done) =>
        /\ DOMAIN ret.val = 1..2
        /\ DtLE(ret.val[1], ret.val[2])

\* C21: create_restart_schedule called twice with the same raw resource
\* identifier and the same fire time derives the same rule_id both times,
\* whatever test_mode, the rule store and the other arguments are; every
\* registration either call makes is made under that rule_id.
C21_SameRuleIdTwice ==
    (call.fn = "create_restart_schedule twice" /\ ret.done) =>
        /\ ret.val[1].rule_name = ret.val[2].rule_name
        /\ \A i \in 1..2 : \A k \in 1..Len(ret.val[i].calls) :
              ret.val[i].calls[k][2] = ret.val[1].rule_name

\* a test-mode call and a registering call with other arguments agree
C21_Witness ==
    /\ call.fn = "create_restart_schedule twice"
    /\ ret.done
    /\ call.first.test_mode /\ ~call.second.test_mode
    /\ call.first.resource_id # call.second.resource_id
    /\ call.first.store # call.second.store
    /\ call.second.fault = "none"
    /\ ret.val[1].calls = <<>>
    /\ Len(ret.val[2].calls) = 2
    /\ ret.val[1].rule_name = ret.val[2].rule_name

HexDigits ==
    {"0","1","2","3","4","5","6","7","8","9","a","b","c","d","e","f"}

\* name is 'ecs-restart-', eight hex digits, '-' and the decimal digits of ts
WellFormedRuleId(name, ts) ==
    /\ Len(name) > 21
    /\ SubSeq(name, 1, 12) = <<"e","c","s","-","r","e","s","t","a","r","t","-">>
    /\ \A k \in 13..20 : name[k] \in HexDigits
    /\ name[21] = "-"
    /\ AllDigits(SubSeq(name, 22, Len(name)))
    /\ ParseInt(SubSeq(name, 22, Len(name))) = ts

\* C22: every rule_id of create_restart_schedule is the namespace prefix, an
\* 8-hex-character hash fragment and the fire time's epoch seconds, and is at
\* most 64 characters long.
C22_RuleIdShapeAndLength ==
    (call.fn = "create_restart_schedule twice" /\ ret.done) =>
        \A i \in 1..2 :
            /\ WellFormedRuleId(ret.val[i].rule_name, Timestamp(call.restart_time))
            /\ Len(ret.val[i].rule_name) <= 64

\* the 59-character service ARN with a ten-digit epoch gives 31 characters
C22_Witness ==
    /\ call.fn = "create_restart_schedule twice"
    /\ ret.done
    /\ call.resource_arn = SvcArn
    /\ Len(call.resource_arn) = 59
    /\ call.restart_time.year = 2037
    /\ Len(ret.val[1].rule_name) = 31

\* the number of days from the date of a to the date of b
DaysBetween(a, b) ==
    DaysFromCivil(b.year, b.month, b.day) - DaysFromCivil(a.year, a.month, a.day)

\* C23: calculate_next_4am returns tomorrow's 04:00 when the current hour is
\* 4 or later, or when it is 3 and the current minute is 50 or later; in
\* every other case it returns today's 04:00; minute, second and microsecond
\* of the result are zero.
C23_TodayOrTomorrowAt4 ==
    (call.fn = "calculate_next_4am" /\ ret.done) =>
        /\ DaysBetween(call.now, ret.val) =
              IF call.now.hour >= 4 \/ (call.now.hour = 3 /\ call.now.minute >= 50)
              THEN 1 ELSE 0
        /\ ret.val.hour = 4
        /\ ret.val.minute = 0 /\ ret.val.second = 0 /\ ret.val.microsecond = 0
        /\ ret.val.aware /\ ret.val.off = call.now.off

\* 03:50:00 on the last day of a year: 04:00 of the next year's first day
C23_Witness ==
    /\ call.fn = "calculate_next_4am"
    /\ ret.done
    /\ call.now.year = 2025 /\ call.now.month = 12 /\ call.now.day = 31
    /\ call.now.hour = 3 /\ call.now.minute = 50 /\ call.now.second = 0
    /\ ret.val.year = 2026 /\ ret.val.month = 1 /\ ret.val.day = 1
    /\ ret.val.hour = 4

\* the put_parameter calls of the call that returned
WriteBacks == {i \in 1..Len(ret.calls) : ret.calls[i][1] = "put_parameter"}

\* the built-in interval of the year, in UTC: the table entries of 2024 and
\* 2025, and 1 February + 8 days (China time) for a year not in the table
BuiltInUtc(year) ==
    CASE year = 2024 -> <<DateTime(2024, 2, 9, 16, 0, 0, Utc), DateTime(2024, 2, 17, 15, 59, 59, Utc)>>
      [] year = 2025 -> <<DateTime(2025, 1, 28, 16, 0, 0, Utc), DateTime(2025, 2, 5, 15, 59, 59, Utc)>>
      [] year = 2031 -> <<DateTime(2031, 1, 31, 16, 0, 0, Utc), DateTime(2031, 2, 8, 15, 59, 59, Utc)>>

\* the lookup of the call answers not-found
NotFound == call.env.ssmUp /\ call.year \notin DOMAIN call.store

\* the lookup of the call finds the value v
Finds(v) == call.env.ssmUp /\ call.year \in DOMAIN call.store /\ call.store[call.year] = v

\* C27: get_spring_festival_dates writes back only after the lookup answered
\* not-found, and at most once; whether the write succeeds or fails the
\* built-in interval of the year is returned; after any other lookup failure
\* nothing is written and the built-in interval is returned; a well-formed
\* override is returned and nothing is written.
C27_WriteBackOnlyOnNotFound ==
    (call.fn = "get_spring_festival_dates" /\ ret.done) =>
        /\ Cardinality(WriteBacks) <= 1
        /\ WriteBacks # {} <=> NotFound
        /\ NotFound =>
              /\ ret.val = BuiltInUtc(call.year)
              /\ ret.store = IF call.env.putOk
                             THEN (call.year :> SeedValue(ret.val)) @@ call.store
                             ELSE call.store
        /\ (~call.env.ssmUp \/ Finds(BrokenOverride)) =>
              /\ ret.val = BuiltInUtc(call.year)
              /\ ret.store = call.store
        /\ Finds(NaiveOverride) =>
              /\ ret.val = <<DateTime(2025, 1, 27, 16, 0, 0, Utc),
                             DateTime(2025, 2, 4, 15, 59, 59, Utc)>>
              /\ ret.store = call.store
        /\ Finds(AwareOverride) =>
              /\ ret.val = <<DateTime(2025, 1, 27, 16, 0, 0, Utc),
                             DateTime(2025, 2, 4, 23, 59, 59, Utc)>>
              /\ ret.store = call.store

\* not-found for 2031 with a failing write: one write, the synthesized interval
C27_Witness ==
    /\ call.fn = "get_spring_festival_dates"
    /\ ret.done
    /\ call.year = 2031
    /\ call.env.ssmUp /\ ~call.env.putOk
    /\ 2031 \notin DOMAIN call.store
    /\ Cardinality(WriteBacks) = 1
    /\ ret.store = call.store
    /\ ret.val[1].month = 1 /\ ret.val[1].day = 31 /\ ret.val[2].day = 8

==========================================================================
